---- MODULE Spec2Model ----
(***************************************************************************)
(* A model of the StockCharts data path: the per-source normalisers, the   *)
(* mock generators, the documented TTL caches and the fallback chain of    *)
(* searchStock / fetchStockData (src/script.js, src/docs/performance.md).  *)
(*                                                                         *)
(* JavaScript numbers are modelled as integers (prices in cents where the  *)
(* code computes with fractions); the non-numbers NaN, null and undefined  *)
(* are integer sentinels outside every value the model computes.           *)
(***************************************************************************)
EXTENDS Integers, Sequences, FiniteSets, TLC

VARIABLES
    yIn,        \* Yahoo chart result handed to the normaliser / to createChart
    yOut,       \* what processYahooFinanceData returned (or that it threw)
    yChart,     \* labels and prices createChart extracted from yIn
    aIn,        \* Alpha Vantage 'Time Series (Daily)' object, in key order
    aRange,     \* the timeRange requested from the Alpha Vantage normalisers
    aOut,       \* what processAlphaVantageData returned (or that it threw)
    aChart,     \* the chart result searchStockAlphaVantage built from aIn
    mRange,     \* the timeRange handed to the mock generators
    mPrice,     \* the currentPrice (quote.c) handed to generateMockCandleData
    mRandom,    \* the stream of values Math.random() returns, in permille
    mChart,     \* the chart result searchStockMockData built
    mData,      \* what generateMockStockData returned (or that it threw)
    mCandle,    \* what generateMockCandleData returned
    cacheKind,  \* the class of the cache object: "ApiCache" or "CacheManager"
    now,        \* Date.now(), in milliseconds since the cache was constructed
    ticks,      \* how many times the clock has advanced
    cache,      \* this.cache: key -> entry ({data, timestamp} or {data, expiry})
    cleanupTimeout, \* CacheManager: when the scheduled cleanup is due, or NoTimer
    lastSet,    \* history: key -> the data and time of the latest set(key, data)
    lastGet,    \* history: the key, time and result of the get that just ran
    isComparisonMode, \* the display mode
    searches,   \* the searchStock calls: where each one stands in its chain
    chart,      \* the module-level chart variable and the Chart it refers to
    stockInfo,  \* the stock info panel
    loading,    \* whether the loading indicator is shown
    searchDisabled, \* searchButton.disabled
    error,      \* the error banner: which message it shows, or "none"
    compares,   \* the compareStocks calls, each with its two fetchStockData runs
    panels,     \* comparison mode: the title, info panel and chart of side A and B
    compareDisabled, \* compareButton.disabled
    instances,  \* per canvas: how many Chart instances on it are not destroyed
    chartJsLoaded,  \* whether the Chart.js script has loaded (Chart is defined)
    lastAlpha,  \* history: what the Alpha Vantage response of the latest step carried
    lastDone,   \* history: the latest step settled a searchStock call after a
                \* call that had started later, with another symbol on screen
    storage,    \* localStorage: the value under the key 'stockchart-theme'
    storageAccess,  \* whether localStorage can be read and written in this browser
    themeManager,   \* per page: the ThemeManager the page's script constructed
    dataTheme,  \* per page: the data-theme attribute of document.documentElement
    lastApplied,    \* history: the theme of the latest applyTheme call on any page
    variants,   \* the three documented caches side by side: variant -> key -> entry
    variantGets,    \* history: what the get that just ran returned in each variant
    retry,      \* the fetchWithRetry call: its position, attempt, errors and waits
    rateLimiter,    \* rateLimiter.requests: the times recorded and still kept
    issued,     \* history: the times at which fetchWithRateLimit called fetchFunction
    lastRequest,    \* history: how the fetchWithRateLimit call that just ran ended
    debounced,  \* the function debounce returned: its flag and its timeout variable
    calls,      \* history: the time and arguments of each call of the debounced function
    invocations \* history: the time and arguments of each call of the underlying function

yVars == <<yIn, yOut, yChart>>
aVars == <<aIn, aRange, aOut, aChart>>
mVars == <<mRange, mPrice, mRandom, mChart, mData, mCandle>>
cVars == <<cacheKind, now, ticks, cache, cleanupTimeout, lastSet, lastGet>>
cmpVars == <<compares, panels, compareDisabled>>
sVars == <<isComparisonMode, searches, chart, stockInfo, loading, searchDisabled, error,
           compares, panels, compareDisabled, instances, chartJsLoaded,
           lastAlpha, lastDone>>
tVars == <<storage, storageAccess, themeManager, dataTheme, lastApplied>>
rVars == <<rateLimiter, issued, lastRequest>>
dVars == <<debounced, calls, invocations>>
uVars == <<variants, variantGets, retry, rateLimiter, issued, lastRequest,
           debounced, calls, invocations>>

vars == <<yIn, yOut, yChart, aIn, aRange, aOut, aChart,
          mRange, mPrice, mRandom, mChart, mData, mCandle,
          cacheKind, now, ticks, cache, cleanupTimeout, lastSet, lastGet,
          isComparisonMode, searches, chart, stockInfo, loading, searchDisabled,
          error, compares, panels, compareDisabled, instances, chartJsLoaded,
          lastAlpha, lastDone,
          storage, storageAccess, themeManager, dataTheme, lastApplied,
          variants, variantGets, retry, rateLimiter, issued, lastRequest,
          debounced, calls, invocations>>

----------------------------------------------------------------------------
(* JavaScript values and operators                                         *)

NaN == 0 - 999999
Null == 0 - 999998
Undefined == 0 - 999997

NonNumbers == {NaN, Null, Undefined}

IsNumber(x) == x \notin NonNumbers

\* a value that is truthy in a JavaScript condition (numbers only)
Truthy(x) == x \notin {0, NaN, Null, Undefined}

\* a || b
JsOr(a, b) == IF Truthy(a) THEN a ELSE b

\* ToNumber(x) of the arithmetic operators: null is 0, undefined is NaN
ToNumber(x) == IF x = Null THEN 0 ELSE IF x = Undefined THEN NaN ELSE x

\* a - b
JsSub(a, b) ==
    IF ToNumber(a) = NaN \/ ToNumber(b) = NaN THEN NaN ELSE ToNumber(a) - ToNumber(b)

\* Math.max(a, b): NaN as soon as one argument is NaN
JsMax(a, b) ==
    IF ToNumber(a) = NaN \/ ToNumber(b) = NaN THEN NaN
    ELSE IF ToNumber(a) >= ToNumber(b) THEN ToNumber(a) ELSE ToNumber(b)

\* arr[i] with a 0-based JavaScript index: undefined outside the array
JsAt(arr, i) == IF i >= 0 /\ i < Len(arr) THEN arr[i + 1] ELSE Undefined

SecondsPerDay == 86400

\* new Date(ts * 1000).toISOString().split('T')[0]: the UTC day of a timestamp
IsoDate(ts) == ts \div SecondsPerDay

\* the browser's offset from UTC in seconds (US Eastern standard time)
UtcOffset == 0 - 18000

\* new Date(ts * 1000).toLocaleDateString(): the local day of a timestamp
LocaleDate(ts) == (ts + UtcOffset) \div SecondsPerDay

----------------------------------------------------------------------------
(* Yahoo Finance normalisation                                             *)

MaxPoints == 4

NoResult == [threw |-> FALSE, prices |-> <<>>, currentPrice |-> Undefined,
             change |-> Undefined, done |-> FALSE]

\* processYahooFinanceData, the forEach over result.timestamp
RECURSIVE YahooPrices(_, _, _)
YahooPrices(timestamps, quotes, index) ==
    IF index >= Len(timestamps) THEN <<>>
    ELSE <<[date   |-> IsoDate(JsAt(timestamps, index)),
            open   |-> JsOr(JsAt(quotes.open, index), 0),
            high   |-> JsOr(JsAt(quotes.high, index), 0),
            low    |-> JsOr(JsAt(quotes.low, index), 0),
            close  |-> JsOr(JsAt(quotes.close, index), 0),
            volume |-> JsOr(JsAt(quotes.volume, index), 0)]>>
         \o YahooPrices(timestamps, quotes, index + 1)

\* processYahooFinanceData after the forEach: the quote snapshot and the
\* returned object
YahooReturn(result, prices) ==
    LET n == Len(prices)
    IN  \* prices[prices.length - 1].close throws on an empty array, and is
        \* evaluated only when meta.regularMarketPrice is falsy
        IF ~Truthy(result.meta.regularMarketPrice) /\ n = 0
        THEN [NoResult EXCEPT !.threw = TRUE, !.done = TRUE]
        ELSE LET currentPrice ==
                     JsOr(result.meta.regularMarketPrice,
                          IF n > 0 THEN prices[n].close ELSE Undefined)
                 previousPrice ==
                     JsOr(result.meta.previousClose,
                          IF n > 1 THEN prices[n - 1].close ELSE currentPrice)
             IN [threw |-> FALSE, prices |-> prices,
                 currentPrice |-> currentPrice,
                 change |-> JsSub(currentPrice, previousPrice),
                 done |-> TRUE]

\* the quote arrays with the null closes removed before the zip
CompactQuotes(quotes) ==
    [quotes EXCEPT !.close = SelectSeq(quotes.close, LAMBDA c : c # Null)]

\* a normaliser that drops the null closes first and zips afterwards
\* result.timestamp || []
TimestampsOrEmpty(result) == IF result.hasTimestamp THEN result.timestamp ELSE <<>>

processYahooFinanceData_compacted(result) ==
    YahooReturn(result,
                YahooPrices(TimestampsOrEmpty(result), CompactQuotes(result.quote), 0))

processYahooFinanceData(result) ==
    YahooReturn(result, YahooPrices(TimestampsOrEmpty(result), result.quote, 0))

\* createChart, the loop that fills labels[] and prices[]
RECURSIVE ChartPoints(_, _, _)
ChartPoints(timestamps, closes, i) ==
    IF i >= Len(timestamps) THEN <<>>
    ELSE (IF JsAt(closes, i) # Null /\ JsAt(closes, i) # Undefined
          THEN <<[label |-> LocaleDate(JsAt(timestamps, i)),
                  price |-> JsAt(closes, i)]>>
          ELSE <<>>)
         \o ChartPoints(timestamps, closes, i + 1)

\* createChart's validation of chartResult: !chartResult.timestamp
ChartResultValid(chartResult) ==
    "hasTimestamp" \in DOMAIN chartResult => chartResult.hasTimestamp

createChartData(chartResult) ==
    [points |-> IF ChartResultValid(chartResult)
                THEN ChartPoints(chartResult.timestamp, chartResult.quote.close, 0)
                ELSE <<>>,
     done |-> TRUE]

NoChartData == [points |-> <<>>, done |-> FALSE]

(* The chart results the normaliser is run on: n daily bars, bar i (0-based)  *)
(* stamped 14:30 UTC of day FirstDay + i, its fields encoding i, with any     *)
(* subset of the closes and any subset of the other fields null.              *)

FirstDay == 20000
MarketOpen == 52200

BarTimestamp(i) == (FirstDay + i) * SecondsPerDay + MarketOpen

BarField(offset, i, nulls) == IF i \in nulls THEN Null ELSE 100 * (i + 1) + offset

YahooResult(n, closeNulls, otherNulls, marketPrice) ==
    [hasTimestamp |-> TRUE,
     timestamp |-> [k \in 1..n |-> BarTimestamp(k - 1)],
     quote |-> [open   |-> [k \in 1..n |-> BarField(20, k - 1, otherNulls)],
                high   |-> [k \in 1..n |-> BarField(40, k - 1, otherNulls)],
                low    |-> [k \in 1..n |-> BarField(10, k - 1, otherNulls)],
                close  |-> [k \in 1..n |-> BarField(30, k - 1, closeNulls)],
                volume |-> [k \in 1..n |-> BarField(50, k - 1, otherNulls)]],
     meta |-> [regularMarketPrice |-> marketPrice, previousClose |-> Undefined]]

\* a chart result for a range without a trading day: no timestamp array
EmptyYahooResult(marketPrice) ==
    [YahooResult(0, {}, {}, marketPrice) EXCEPT !.hasTimestamp = FALSE]

MarketPrices == {Undefined, 12345}

YahooResultsUpTo(maxPoints) ==
    UNION { { YahooResult(n, cn, on, mp) :
                cn \in SUBSET (0..(n - 1)), on \in SUBSET (0..(n - 1)),
                mp \in MarketPrices } : n \in 0..maxPoints }
    \cup { EmptyYahooResult(mp) : mp \in MarketPrices }

YahooResults == YahooResultsUpTo(MaxPoints)

YahooIdle == yIn = YahooResult(0, {}, {}, Undefined) /\ yOut = NoResult
             /\ yChart = NoChartData

\* fetchStockDataYahoo hands chart.result[0] to processYahooFinanceData
NormalizeYahoo ==
    /\ ~yOut.done
    /\ yOut' = processYahooFinanceData(yIn)
    /\ UNCHANGED <<yIn, yChart, aVars, mVars, cVars, sVars, tVars, uVars>>

\* searchStockYahoo hands chart.result[0] to createChart
ChartYahoo ==
    /\ ~yChart.done
    /\ yChart' = createChartData(yIn)
    /\ UNCHANGED <<yIn, yOut, aVars, mVars, cVars, sVars, tVars, uVars>>

NextYahoo == NormalizeYahoo \/ ChartYahoo

\* the 0-based indices of the input whose close is null
NullCloses == { i \in 0..(Len(yIn.timestamp) - 1) : JsAt(yIn.quote.close, i) = Null }

\* the k-th (1-based) index of the input whose close is not null
RECURSIVE KthKept(_, _)
KthKept(k, from) ==
    IF from \notin NullCloses
    THEN (IF k = 1 THEN from ELSE KthKept(k - 1, from + 1))
    ELSE KthKept(k, from + 1)

\* C4: Yahoo Finance normalisation skips null entries: a chart result with n
\* timestamps of which k have a null close yields exactly n - k points, the
\* non-null entries in their original order, from processYahooFinanceData
\* and from createChart alike.
C4_YahooSkipsNulls ==
    LET n == Len(yIn.timestamp)
        k == Cardinality(NullCloses)
    IN /\ (yOut.done /\ ~yOut.threw) =>
            /\ Len(yOut.prices) = n - k
            /\ \A j \in 1..Len(yOut.prices) :
                   j <= n - k =>
                     yOut.prices[j].close = JsAt(yIn.quote.close, KthKept(j, 0))
       /\ yChart.done =>
            /\ Len(yChart.points) = n - k
            /\ \A j \in 1..Len(yChart.points) :
                   j <= n - k =>
                     yChart.points[j].price = JsAt(yIn.quote.close, KthKept(j, 0))

\* the input index a date of the output stands for
IndexOfDay(day) == day - FirstDay

\* C5: Yahoo Finance normalisation never shifts alignment: every output
\* point's date and its open, high, low, close and volume (its chart label
\* and price) come from one and the same input index, also with nulls
\* mid-array (a null field reads as 0 in processYahooFinanceData).
C5_YahooAlignment ==
    /\ (yOut.done /\ ~yOut.threw) =>
         \A j \in 1..Len(yOut.prices) :
            LET p == yOut.prices[j]
                i == IndexOfDay(p.date)
            IN /\ p.date = IsoDate(JsAt(yIn.timestamp, i))
               /\ p.open = JsOr(JsAt(yIn.quote.open, i), 0)
               /\ p.high = JsOr(JsAt(yIn.quote.high, i), 0)
               /\ p.low = JsOr(JsAt(yIn.quote.low, i), 0)
               /\ p.close = JsOr(JsAt(yIn.quote.close, i), 0)
               /\ p.volume = JsOr(JsAt(yIn.quote.volume, i), 0)
    /\ yChart.done =>
         \A j \in 1..Len(yChart.points) :
            LET p == yChart.points[j]
                i == IndexOfDay(p.label)
            IN /\ p.label = LocaleDate(JsAt(yIn.timestamp, i))
               /\ p.price = JsAt(yIn.quote.close, i)

\* both consumers have run on a result with a null close before a non-null one
C5_Witness ==
    /\ yOut.done /\ ~yOut.threw /\ yChart.done
    /\ \E i \in NullCloses : \E j \in (i + 1)..(Len(yIn.timestamp) - 1) :
          j \notin NullCloses

----------------------------------------------------------------------------
(* Alpha Vantage normalisation                                             *)

MaxDates == 4
MaxRange == 5

\* parseFloat / parseInt of a field of the response: a numeric string gives
\* its number, anything else NaN
Junk == 0 - 999996

parseFloat(x) == IF x \in NonNumbers \cup {Junk} THEN NaN ELSE x

\* Array.prototype.sort() on the date keys: 'YYYY-MM-DD' strings compare as
\* their days do
RECURSIVE InsertSorted(_, _)
InsertSorted(x, sorted) ==
    IF sorted = <<>> THEN <<x>>
    ELSE IF x <= Head(sorted) THEN <<x>> \o sorted
    ELSE <<Head(sorted)>> \o InsertSorted(x, Tail(sorted))

RECURSIVE JsSort(_)
JsSort(keys) ==
    IF keys = <<>> THEN <<>> ELSE InsertSorted(Head(keys), JsSort(Tail(keys)))

\* arr.slice(start): a negative start counts from the end, NaN reads as 0
JsSlice(arr, start) ==
    LET from == IF start = NaN THEN 0
                ELSE IF start < 0 THEN (IF Len(arr) + start > 0 THEN Len(arr) + start ELSE 0)
                ELSE IF start > Len(arr) THEN Len(arr) ELSE start
    IN SubSeq(arr, from + 1, Len(arr))

\* -timeRange
JsNeg(x) == IF x = NaN THEN NaN ELSE 0 - x

\* Object.keys(timeSeries): the keys in insertion order
ObjectKeys(timeSeries) == [k \in 1..Len(timeSeries) |-> timeSeries[k].date]

\* timeSeries[date]
Lookup(timeSeries, date) ==
    (CHOOSE k \in 1..Len(timeSeries) : timeSeries[k].date = date)

\* processAlphaVantageData, the forEach over the selected dates
RECURSIVE AlphaPrices(_, _)
AlphaPrices(timeSeries, dates) ==
    IF dates = <<>> THEN <<>>
    ELSE LET dayData == timeSeries[Lookup(timeSeries, Head(dates))]
         IN <<[date   |-> Head(dates),
               open   |-> parseFloat(dayData.open),
               high   |-> parseFloat(dayData.high),
               low    |-> parseFloat(dayData.low),
               close  |-> parseFloat(dayData.close),
               volume |-> parseFloat(dayData.volume)]>>
            \o AlphaPrices(timeSeries, Tail(dates))

\* processAlphaVantageData after the forEach
AlphaReturn(prices) ==
    LET n == Len(prices)
    IN  \* prices[prices.length - 1].close throws on an empty array
        IF n = 0 THEN [NoResult EXCEPT !.threw = TRUE, !.done = TRUE]
        ELSE LET currentPrice == prices[n].close
                 previousPrice == IF n > 1 THEN prices[n - 1].close ELSE currentPrice
             IN [threw |-> FALSE, prices |-> prices,
                 currentPrice |-> currentPrice,
                 change |-> JsSub(currentPrice, previousPrice),
                 done |-> TRUE]

\* the normaliser without the sort: the keys in the order the object has them
processAlphaVantageData_unsorted(timeSeries, timeRange) ==
    AlphaReturn(AlphaPrices(timeSeries,
                            JsSlice(ObjectKeys(timeSeries), JsNeg(timeRange))))

processAlphaVantageData(timeSeries, timeRange) ==
    AlphaReturn(AlphaPrices(timeSeries,
                            JsSlice(JsSort(ObjectKeys(timeSeries)), JsNeg(timeRange))))

\* new Date('YYYY-MM-DD').getTime() / 1000: midnight UTC of the day
DateToTimestamp(date) == date * SecondsPerDay

\* searchStockAlphaVantage, from the time series to the chart result it
\* hands to updateStockInfo and createChart
RECURSIVE AlphaCloses(_, _)
AlphaCloses(timeSeries, dates) ==
    IF dates = <<>> THEN <<>>
    ELSE <<parseFloat(timeSeries[Lookup(timeSeries, Head(dates))].close)>>
         \o AlphaCloses(timeSeries, Tail(dates))

AlphaChartResult(timeSeries, timeRange) ==
    LET dates == JsSlice(JsSort(ObjectKeys(timeSeries)), JsNeg(timeRange))
        prices == AlphaCloses(timeSeries, dates)
        currentPrice == JsAt(prices, Len(prices) - 1)
    IN [timestamp |-> [k \in 1..Len(dates) |-> DateToTimestamp(dates[k])],
        quote |-> [close |-> prices],
        meta |-> [regularMarketPrice |-> currentPrice,
                  previousClose |-> JsOr(JsAt(prices, Len(prices) - 2), currentPrice)],
        done |-> TRUE]

NoChartResult == [timestamp |-> <<>>, quote |-> [close |-> <<>>],
                  meta |-> [regularMarketPrice |-> Undefined,
                            previousClose |-> Undefined],
                  done |-> FALSE]

(* The time series the normalisers are run on: any subset of the days     *)
(* FirstDay+1 .. FirstDay+MaxDates in any key order, the bar of a day     *)
(* encoding the day, with any subset of the closes unparsable.            *)

AlphaEntry(d, junk) ==
    [date |-> FirstDay + d,
     open |-> 100 * d + 20, high |-> 100 * d + 40, low |-> 100 * d + 10,
     close |-> IF d \in junk THEN Junk ELSE 100 * d + 30,
     volume |-> 100 * d + 50]

Injective(f) == \A i, j \in DOMAIN f : f[i] = f[j] => i = j

KeyOrders(maxDates) ==
    UNION { { o \in [1..n -> 1..maxDates] : Injective(o) } : n \in 0..maxDates }

AlphaSeriesUpTo(maxDates) ==
    UNION { { [k \in 1..Len(o) |-> AlphaEntry(o[k], junk)] :
                junk \in SUBSET { o[k] : k \in 1..Len(o) } } : o \in KeyOrders(maxDates) }

AlphaSeries == AlphaSeriesUpTo(MaxDates)

AlphaIdle == aIn = <<>> /\ aRange = 1 /\ aOut = NoResult /\ aChart = NoChartResult

\* fetchStockDataAlphaVantage hands the time series to processAlphaVantageData
NormalizeAlpha ==
    /\ ~aOut.done
    /\ aOut' = processAlphaVantageData(aIn, aRange)
    /\ UNCHANGED <<aIn, aRange, aChart, yVars, mVars, cVars, sVars, tVars, uVars>>

\* searchStockAlphaVantage sorts, slices and parses the series itself
ChartAlpha ==
    /\ ~aChart.done
    /\ aChart' = AlphaChartResult(aIn, aRange)
    /\ UNCHANGED <<aIn, aRange, aOut, yVars, mVars, cVars, sVars, tVars, uVars>>

NextAlpha == NormalizeAlpha \/ ChartAlpha

InputDates == { aIn[k].date : k \in 1..Len(aIn) }

\* the min(t, n) latest dates of the input
LatestDates(t) == { d \in InputDates : Cardinality({ e \in InputDates : e > d }) < t }

Min(a, b) == IF a <= b THEN a ELSE b

StrictlyAscending(seq) == \A j, k \in 1..Len(seq) : j < k => seq[j] < seq[k]

----------------------------------------------------------------------------
(* Mock generators.  Prices are in cents, factors in permille.             *)

MaxMockRange == 8
RandPeriod == 4

\* the day and the time of day at which the generators run
Today == 20400
NowSeconds == 60000

\* Math.random() lies in [0, 1): the two ends of it, in permille
RandomValues == {0, 999}

\* the streams Math.random() can produce: one value per call, the stream
\* repeating after RandPeriod calls
RandomStreams == [1..RandPeriod -> RandomValues]

\* the value of the j-th call (0-based) of Math.random() in a run
Random(stream, j) == stream[(j % Len(stream)) + 1]

DefaultTimeRange == 30
MinTimeRange == 7

\* Math.sin(trendFactor * Math.PI) * 0.1 for trendFactor = k / v, in
\* permille, by Bhaskara's rational approximation of the sine
TrendPermille(k, v) ==
    (100 * 16 * k * (v - k)) \div (5 * v * v - 4 * k * (v - k))

\* the loop of searchStockMockData, i from validTimeRange down to 0
RECURSIVE SearchMockLoop(_, _, _, _)
SearchMockLoop(i, validTimeRange, basePrice, stream) ==
    IF i < 0 THEN <<>>
    ELSE LET k == validTimeRange - i
             volatility == ((Random(stream, 1 + k) - 500) * 150) \div 1000
             trend == TrendPermille(k, validTimeRange)
             price == (basePrice * (1000 + trend + volatility)) \div 1000
         IN <<[timestamp |-> (Today - i) * SecondsPerDay + NowSeconds,
               price |-> JsMax(price, 100)]>>
            \o SearchMockLoop(i - 1, validTimeRange, basePrice, stream)

\* searchStockMockData, up to the chart result it hands to updateStockInfo
\* and createChart
searchStockMockData(timeRange, stream) ==
    LET basePrice == 5000 + Random(stream, 0) * 20
        validTimeRange == JsMax(JsOr(timeRange, DefaultTimeRange), MinTimeRange)
        points == SearchMockLoop(validTimeRange, validTimeRange, basePrice, stream)
        prices == [j \in 1..Len(points) |-> points[j].price]
        currentPrice == JsAt(prices, Len(prices) - 1)
    IN [timestamp |-> [j \in 1..Len(points) |-> points[j].timestamp],
        quote |-> [close |-> prices],
        meta |-> [regularMarketPrice |-> currentPrice,
                  previousClose |-> JsOr(JsAt(prices, Len(prices) - 2), currentPrice)],
        done |-> TRUE]

\* timeRange - 1, and the loop test i >= 0 (false for NaN)
JsDec(x) == IF x = NaN THEN NaN ELSE x - 1

\* the loop of generateMockStockData, i from timeRange - 1 down to 0; the
\* k-th pass draws variation, open, high, low and volume in this order
RECURSIVE GenerateMockLoop(_, _, _, _)
GenerateMockLoop(i, k, basePrice, stream) ==
    IF i = NaN \/ i < 0 THEN <<>>
    ELSE LET variation == Random(stream, 1 + 5 * k) - 500
             price == JsMax(100, basePrice + variation)
         IN <<[date   |-> IsoDate((Today - i) * SecondsPerDay + NowSeconds),
               open   |-> (price * (990 + (Random(stream, 2 + 5 * k) * 20) \div 1000)) \div 1000,
               high   |-> (price * (1010 + (Random(stream, 3 + 5 * k) * 20) \div 1000)) \div 1000,
               low    |-> (price * (980 + (Random(stream, 4 + 5 * k) * 20) \div 1000)) \div 1000,
               close  |-> price,
               volume |-> Random(stream, 5 + 5 * k) * 1000 + 100000]>>
            \o GenerateMockLoop(i - 1, k + 1, basePrice, stream)

\* the return statement of generateMockStockData
MockReturn(mockData) ==
    LET n == Len(mockData)
    IN  \* mockData[mockData.length - 1].close throws on an empty array
        IF n = 0 THEN [NoResult EXCEPT !.threw = TRUE, !.done = TRUE]
        ELSE [threw |-> FALSE, prices |-> mockData,
              currentPrice |-> mockData[n].close,
              change |-> IF n > 1 THEN mockData[n].close - mockData[n - 1].close ELSE 0,
              done |-> TRUE]

\* the generator with its loop starting one day later
generateMockStockData_oneDayShort(timeRange, stream) ==
    MockReturn(GenerateMockLoop(JsDec(JsDec(timeRange)), 0,
                                Random(stream, 0) * 20 + 5000, stream))

\* generateMockStockData (script.js); a throw rejects the promise it returns
generateMockStockData(timeRange, stream) ==
    MockReturn(GenerateMockLoop(JsDec(timeRange), 0,
                                Random(stream, 0) * 20 + 5000, stream))

\* currentPrice * (1 + variation * (i / days)) in cents: NaN when currentPrice
\* is undefined or NaN, and when i / days is 0 / 0
CandlePrice(currentPrice, variation, i, days) ==
    IF ToNumber(currentPrice) = NaN \/ days = 0 THEN NaN
    ELSE (ToNumber(currentPrice) * (1000 * days + variation * i)) \div (1000 * days)

\* the loop of generateMockCandleData, i from days down to 0
RECURSIVE CandleLoop(_, _, _, _)
CandleLoop(i, days, currentPrice, stream) ==
    IF i = NaN \/ i < 0 THEN <<>>
    ELSE LET variation == (Random(stream, days - i) - 500) \div 10
         IN <<[t |-> (Today - i) * SecondsPerDay + NowSeconds,
               c |-> JsMax(CandlePrice(currentPrice, variation, i, days), 1)]>>
            \o CandleLoop(i - 1, days, currentPrice, stream)

generateMockCandleData(currentPrice, days, stream) ==
    LET points == CandleLoop(days, days, currentPrice, stream)
    IN [t |-> [j \in 1..Len(points) |-> points[j].t],
        c |-> [j \in 1..Len(points) |-> points[j].c],
        done |-> TRUE]

NoCandle == [t |-> <<>>, c |-> <<>>, done |-> FALSE]

\* what parseInt of the time-range field can give
MockRanges == {NaN, DefaultTimeRange} \cup 0..MaxMockRange

\* quote.c of the Finnhub quote: absent, zero for an unknown symbol, a price
QuotePrices == {Undefined, 0, 15000}

MockIdle ==
    /\ mRange = 1 /\ mPrice = 0 /\ mRandom = [j \in 1..1 |-> 0]
    /\ mChart = NoChartResult /\ mData = NoResult /\ mCandle = NoCandle

\* searchStock, after both network sources failed
RunSearchStockMockData ==
    /\ ~mChart.done
    /\ mChart' = searchStockMockData(mRange, mRandom)
    /\ UNCHANGED <<mRange, mPrice, mRandom, mData, mCandle, yVars, aVars, cVars, sVars, tVars, uVars>>

\* fetchStockData, after both network sources failed
RunGenerateMockStockData ==
    /\ ~mData.done
    /\ mData' = generateMockStockData(mRange, mRandom)
    /\ UNCHANGED <<mRange, mPrice, mRandom, mChart, mCandle, yVars, aVars, cVars, sVars, tVars, uVars>>

\* searchStock (Finnhub variant), when only the candle request failed
RunGenerateMockCandleData ==
    /\ ~mCandle.done
    /\ mCandle' = generateMockCandleData(mPrice, mRange, mRandom)
    /\ UNCHANGED <<mRange, mPrice, mRandom, mChart, mData, yVars, aVars, cVars, sVars, tVars, uVars>>

NextMock ==
    RunSearchStockMockData \/ RunGenerateMockStockData \/ RunGenerateMockCandleData

Last(seq) == seq[Len(seq)]

\* C7: for every timeRange t passed to it, a mock generator produces exactly
\* t + 1 points, the last one dated today; searchStockMockData,
\* generateMockStockData and generateMockCandleData alike.
C7_MockLength ==
    (IsNumber(mRange) /\ mRange >= 1) =>
        /\ mChart.done =>
             /\ Len(mChart.timestamp) = mRange + 1
             /\ IsoDate(Last(mChart.timestamp)) = Today
        /\ mData.done =>
             /\ ~mData.threw
             /\ Len(mData.prices) = mRange + 1
             /\ Last(mData.prices).date = Today
        /\ mCandle.done =>
             /\ Len(mCandle.t) = mRange + 1
             /\ IsoDate(Last(mCandle.t)) = Today

Positive(x) == IsNumber(x) /\ x > 0

\* C8: every close (price) a mock generator produces is greater than 0, for
\* every timeRange, every base or current price and every outcome of the
\* random draws.
C8_MockPositive ==
    /\ \A j \in 1..Len(mChart.quote.close) : Positive(mChart.quote.close[j])
    /\ \A j \in 1..Len(mData.prices) : Positive(mData.prices[j].close)
    /\ \A j \in 1..Len(mCandle.c) : Positive(mCandle.c[j])

\* C9: the synthetic generator cannot itself fail: for every timeRange that
\* parseInt can give, 0 and NaN included, searchStockMockData and
\* generateMockStockData complete without throwing and yield a sequence.
C9_MockNeverThrows ==
    /\ mChart.done => Len(mChart.quote.close) = Len(mChart.timestamp)
    /\ mData.done => ~mData.threw

----------------------------------------------------------------------------
(* The documented TTL caches: ApiCache and CacheManager                    *)

MaxTicks == 4

TTL == 300000
CleanupInterval == 60000

Keys == {"AAPL-7d", "MSFT-7d"}
Data == {"d1", "d2"}

NoEntry == [present |-> FALSE, data |-> "null", timestamp |-> 0, expiry |-> 0]
NoTimer == 0 - 1
NoSet == [set |-> FALSE, data |-> "null", at |-> 0]
NoGet == [key |-> "none", at |-> 0, result |-> "null"]

\* ApiCache.get: Date.now() - item.timestamp < this.ttl taken for "expired"
ApiCacheExpired_reversed(item, t) == t - item.timestamp < TTL

\* ApiCache.get: Date.now() - item.timestamp > this.ttl
ApiCacheExpired(item, t) == t - item.timestamp > TTL

\* CacheManager.get / cleanup: Date.now() > item.expiry
CacheManagerExpired(item, t) == t > item.expiry

CacheIdle ==
    /\ cacheKind = "none" /\ now = 0 /\ ticks = 0
    /\ cache = [k \in Keys |-> NoEntry] /\ cleanupTimeout = NoTimer
    /\ lastSet = [k \in Keys |-> NoSet] /\ lastGet = NoGet

\* ApiCache.set(key, data)
ApiCacheSet(key, data) ==
    /\ cacheKind = "ApiCache"
    /\ cache' = [cache EXCEPT ![key] =
                    [present |-> TRUE, data |-> data, timestamp |-> now, expiry |-> 0]]
    /\ lastSet' = [lastSet EXCEPT ![key] = [set |-> TRUE, data |-> data, at |-> now]]
    /\ lastGet' = NoGet
    /\ UNCHANGED <<cacheKind, now, ticks, cleanupTimeout, yVars, aVars, mVars, sVars, tVars, uVars>>

\* ApiCache.get(key)
ApiCacheGet(key) ==
    /\ cacheKind = "ApiCache"
    /\ LET item == cache[key]
       IN IF ~item.present
          THEN /\ lastGet' = [key |-> key, at |-> now, result |-> "null"]
               /\ UNCHANGED cache
          ELSE IF ApiCacheExpired(item, now)
          THEN /\ cache' = [cache EXCEPT ![key] = NoEntry]
               /\ lastGet' = [key |-> key, at |-> now, result |-> "null"]
          ELSE /\ lastGet' = [key |-> key, at |-> now, result |-> item.data]
               /\ UNCHANGED cache
    /\ UNCHANGED <<cacheKind, now, ticks, cleanupTimeout, lastSet, yVars, aVars, mVars, sVars, tVars, uVars>>

\* CacheManager.set(key, data) with the default ttl, scheduleCleanup included
CacheManagerSet(key, data) ==
    /\ cacheKind = "CacheManager"
    /\ cache' = [cache EXCEPT ![key] =
                    [present |-> TRUE, data |-> data, timestamp |-> 0,
                     expiry |-> now + TTL]]
    /\ cleanupTimeout' = IF cleanupTimeout # NoTimer THEN cleanupTimeout
                         ELSE now + CleanupInterval
    /\ lastSet' = [lastSet EXCEPT ![key] = [set |-> TRUE, data |-> data, at |-> now]]
    /\ lastGet' = NoGet
    /\ UNCHANGED <<cacheKind, now, ticks, yVars, aVars, mVars, sVars, tVars, uVars>>

\* CacheManager.get(key)
CacheManagerGet(key) ==
    /\ cacheKind = "CacheManager"
    /\ LET item == cache[key]
       IN IF ~item.present
          THEN /\ lastGet' = [key |-> key, at |-> now, result |-> "null"]
               /\ UNCHANGED cache
          ELSE IF CacheManagerExpired(item, now)
          THEN /\ cache' = [cache EXCEPT ![key] = NoEntry]
               /\ lastGet' = [key |-> key, at |-> now, result |-> "null"]
          ELSE /\ lastGet' = [key |-> key, at |-> now, result |-> item.data]
               /\ UNCHANGED cache
    /\ UNCHANGED <<cacheKind, now, ticks, cleanupTimeout, lastSet, yVars, aVars, mVars, sVars, tVars, uVars>>

\* the setTimeout callback of scheduleCleanup: cleanup(), then the timer is
\* cleared
CacheManagerCleanup ==
    /\ cacheKind = "CacheManager"
    /\ cleanupTimeout # NoTimer /\ now >= cleanupTimeout
    /\ cache' = [k \in Keys |->
                    IF cache[k].present /\ CacheManagerExpired(cache[k], now)
                    THEN NoEntry ELSE cache[k]]
    /\ cleanupTimeout' = NoTimer
    /\ lastGet' = NoGet
    /\ UNCHANGED <<cacheKind, now, ticks, lastSet, yVars, aVars, mVars, sVars, tVars, uVars>>

\* time passes: by a millisecond, or by a millisecond less than the TTL
Tick ==
    /\ ticks < MaxTicks
    /\ \E step \in {1, TTL - 1} : now' = now + step
    /\ ticks' = ticks + 1
    /\ lastGet' = NoGet
    /\ UNCHANGED <<cacheKind, cache, cleanupTimeout, lastSet, yVars, aVars, mVars, sVars, tVars, uVars>>

NextCache ==
    \/ \E k \in Keys, d \in Data : ApiCacheSet(k, d)
    \/ \E k \in Keys : ApiCacheGet(k)
    \/ \E k \in Keys, d \in Data : CacheManagerSet(k, d)
    \/ \E k \in Keys : CacheManagerGet(k)
    \/ CacheManagerCleanup
    \/ Tick

\* C10: for a cache with time-to-live T: after set(k, d), a get(k) made less
\* than T after that set, with no later set(k) in between, returns the
\* identical object d, and one made more than T after it returns null,
\* whatever was set and read on other keys; an expired entry is never
\* returned.
C10_CacheTtl ==
    \A k \in Keys :
        (lastGet.key = k /\ lastSet[k].set) =>
            LET age == lastGet.at - lastSet[k].at
            IN /\ age < TTL => lastGet.result = lastSet[k].data
               /\ age > TTL => lastGet.result = "null"

\* a get of a key set more than the TTL ago has returned null although the
\* other key was set later and is still fresh
C10_Witness ==
    \E k \in Keys, o \in Keys :
        /\ o # k /\ lastGet.key = k /\ lastSet[k].set /\ lastSet[o].set
        /\ lastGet.at - lastSet[k].at > TTL
        /\ lastGet.at - lastSet[o].at < TTL
        /\ lastSet[o].at > lastSet[k].at
        /\ cache[o].present
        /\ lastGet.result = "null"

----------------------------------------------------------------------------
(* The fallback chain of searchStock (single-stock mode).  A step of a     *)
(* call runs from one settled fetch to the next await on the network.      *)

MaxSearches == 2
MaxChainRange == 1
MaxChainDates == 1
MaxChainPoints == 1

SearchIds == 1..MaxSearches

\* what the symbol field can hold when the search starts
SymbolInputs ==
    { <<>>, <<" ", "a">>, <<"M">>, <<"A", "1">>, <<"A", "A", "A", "A", "A", "A">> }

\* String.prototype.trim
RECURSIVE TrimStart(_)
TrimStart(str) ==
    IF str # <<>> /\ Head(str) = " " THEN TrimStart(Tail(str)) ELSE str

RECURSIVE TrimEnd(_)
TrimEnd(str) ==
    IF str # <<>> /\ str[Len(str)] = " " THEN TrimEnd(SubSeq(str, 1, Len(str) - 1)) ELSE str

Trim(str) == TrimEnd(TrimStart(str))

\* String.prototype.toUpperCase
ToUpperCase(str) == [i \in 1..Len(str) |-> IF str[i] = "a" THEN "A" ELSE str[i]]

\* the validation with /^[A-Z]+$/: no upper limit on the length
isValidStockSymbol_anyLength(symbol) ==
    /\ symbol # <<>>
    /\ LET cleanSymbol == ToUpperCase(Trim(symbol))
       IN /\ Len(cleanSymbol) >= 1
          /\ \A i \in 1..Len(cleanSymbol) : cleanSymbol[i] \in {"A", "M"}

\* isValidStockSymbol (utils.js): /^[A-Z]{1,5}$/ on the trimmed, upper-cased symbol
isValidStockSymbol(symbol) ==
    /\ symbol # <<>>
    /\ LET cleanSymbol == ToUpperCase(Trim(symbol))
       IN /\ Len(cleanSymbol) >= 1 /\ Len(cleanSymbol) <= 5
          /\ \A i \in 1..Len(cleanSymbol) : cleanSymbol[i] \in {"A", "M"}

\* what parseInt of the comparison time-range field gives: a day count, or
\* NaN
ChainRanges == {NaN} \cup 1..MaxChainRange

\* the day counts of the single-stock time-range field
SearchRanges == 1..MaxChainRange

\* the constant streams of Math.random()
ChainStreams == { [j \in 1..1 |-> r] : r \in RandomValues }

\* searchStockMockData(symbol, timeRange) and generateMockStockData(symbol,
\* timeRange) as the chain calls them, by time range and random stream
MockChartResults ==
    [t \in ChainRanges |-> [st \in ChainStreams |-> searchStockMockData(t, st)]]

MockStockData ==
    [t \in ChainRanges |-> [st \in ChainStreams |-> generateMockStockData(t, st)]]

\* what the fetch of the Alpha Vantage URL can settle to: a rejection, or a
\* response with a status and a body
AlphaBodies == {"not_json", "error_message", "note", "information", "empty"}

AlphaResponse(kind, ok, body, series) ==
    [kind |-> kind, ok |-> ok, body |-> body, series |-> series]

AlphaResponses ==
    { AlphaResponse("network_error", FALSE, "none", <<>>) }
    \cup { AlphaResponse("response", FALSE, "not_json", <<>>) }
    \cup { AlphaResponse("response", TRUE, b, <<>>) : b \in AlphaBodies }
    \cup { AlphaResponse("response", TRUE, "series", ts) :
             ts \in AlphaSeriesUpTo(MaxChainDates) }
    \cup { AlphaResponse("response", FALSE, "series", ts) : ts \in AlphaSeriesUpTo(1) }

\* what one proxy attempt of searchStockYahoo (the chart and the quote fetch)
\* can settle to
YahooFailures == {"network_error", "http_error", "not_json", "invalid_chart",
                  "invalid_quote"}

ChainYahooResults ==
    { r \in YahooResultsUpTo(MaxChainPoints) :
        /\ \A k \in 1..Len(r.quote.open) : r.quote.open[k] # Null
        \* a result with bars leaves meta.regularMarketPrice out: the close
        \* of its last bar is the price then
        /\ Len(r.timestamp) > 0 => r.meta.regularMarketPrice = Undefined }

YahooResponses ==
    { [kind |-> f, result |-> EmptyYahooResult(Undefined)] : f \in YahooFailures }
    \cup { [kind |-> "ok", result |-> r] : r \in ChainYahooResults }

\* quoteResponse.result[0].regularMarketPrice of the Yahoo quote
YahooQuotePrice == 12300

NoChart == [state |-> "null", symbol |-> <<>>, source |-> "none", prices |-> <<>>]
DestroyedChart == [NoChart EXCEPT !.state = "destroyed"]

NoInfo == [shown |-> FALSE, symbol |-> <<>>, source |-> "none", currentPrice |-> Undefined]

NoSearch == [pc |-> "idle", symbol |-> <<>>, timeRange |-> 0, proxy |-> 0,
             attempts |-> <<>>, outcome |-> "none",
             \* history of a call in flight: how many calls in flight started
             \* before it, and whether a call that started after it has settled
             rank |-> 0, overtaken |-> FALSE]

\* the source searchStock and fetchStockData try first, and the one each
\* catch block goes on to
FirstSource == "AlphaVantage"

FallbackAfter_mockFirst(source) ==
    CASE source = "AlphaVantage" -> "Mock"
      [] source = "Yahoo" -> "Mock"
      [] OTHER -> "none"

FallbackAfter(source) ==
    CASE source = "AlphaVantage" -> "Yahoo"
      [] source = "Yahoo" -> "Mock"
      [] OTHER -> "none"

Attempt(source) == [source |-> source, result |-> "pending"]

\* the latest attempt of a run has thrown / has returned
Settled(attempts, result) == [attempts EXCEPT ![Len(attempts)].result = result]

\* a call that has started and not yet settled
InFlight(search) == search.pc \notin {"idle", "done"}

\* the calls once the call id has settled: its closure is gone; the calls
\* still in flight are left as they are (their history moves up)
Finished(id, attempts, outcome) ==
    [j \in SearchIds |->
        IF j = id
        THEN [NoSearch EXCEPT !.pc = "done", !.attempts = attempts, !.outcome = outcome]
        ELSE IF InFlight(searches[j])
        THEN [searches[j] EXCEPT
                !.rank = IF @ > searches[id].rank THEN @ - 1 ELSE @,
                !.overtaken = @ \/ searches[j].rank < searches[id].rank]
        ELSE searches[j]]

\* updateStockInfo(chartResult, quote, symbol)
updateStockInfo(chartResult, quotePrice, symbol, source) ==
    [shown |-> TRUE, symbol |-> symbol, source |-> source,
     currentPrice |-> JsOr(chartResult.meta.regularMarketPrice, quotePrice)]

\* createChart leaving a chart that is on screen in place
createChart_firstWins(old, chartResult, symbol, source) ==
    [chart |-> IF old.state = "live" THEN old
               ELSE [state |-> "live", symbol |-> symbol, source |-> source,
                     prices |-> <<>>],
     invalid |-> FALSE, destroys |-> FALSE, creates |-> old.state # "live",
     threw |-> FALSE]

\* createChart without 'if (chart) chart.destroy()'
createChart_noDestroy(old, chartResult, symbol, source) ==
    LET points == createChartData(chartResult).points
    IN IF ~ChartResultValid(chartResult)
       THEN [chart |-> old, invalid |-> TRUE, destroys |-> FALSE, creates |-> FALSE,
             threw |-> FALSE]
       ELSE [chart |-> [state |-> "live", symbol |-> symbol, source |-> source,
                        prices |-> [j \in 1..Len(points) |-> points[j].price]],
             invalid |-> FALSE, destroys |-> FALSE, creates |-> TRUE, threw |-> FALSE]

\* createChart(chartResult, companyName): the chart variable afterwards,
\* whether 'Invalid chart data received.' was shown, whether a Chart that was
\* not destroyed yet was destroyed, whether a new Chart was constructed and
\* whether 'new Chart' threw (Chart is not defined when Chart.js did not load)
createChart(old, chartResult, symbol, source) ==
    LET destroyed == IF old.state = "null" THEN old ELSE DestroyedChart
        points == createChartData(chartResult).points
    IN IF ~ChartResultValid(chartResult)
       THEN [chart |-> destroyed, invalid |-> TRUE,
             destroys |-> old.state = "live", creates |-> FALSE, threw |-> FALSE]
       ELSE IF ~chartJsLoaded
       THEN [chart |-> destroyed, invalid |-> FALSE,
             destroys |-> old.state = "live", creates |-> FALSE, threw |-> TRUE]
       ELSE [chart |-> [state |-> "live", symbol |-> symbol, source |-> source,
                        prices |-> [j \in 1..Len(points) |-> points[j].price]],
             invalid |-> FALSE, destroys |-> old.state = "live", creates |-> TRUE,
             threw |-> FALSE]

\* the canvases Charts are constructed on
Canvases == {"stockChart", "stockChartA", "stockChartB"}
CanvasOf(side) == IF side = "A" THEN "stockChartA" ELSE "stockChartB"

\* the count of a canvas after a call that destroyed and constructed Charts
Counted(count, created) ==
    count - (IF created.destroys THEN 1 ELSE 0) + (IF created.creates THEN 1 ELSE 0)

\* searchStockAlphaVantage without its check of 'Note'
AlphaSearchThrows_ignoresNote(response) ==
    \/ response.kind = "network_error"
    \/ ~response.ok
    \/ response.body \notin {"series", "note"}

\* whether searchStockAlphaVantage throws on this response
AlphaSearchThrows(response) ==
    \/ response.kind = "network_error"
    \/ ~response.ok
    \/ response.body # "series"

\* whether one proxy attempt of searchStockYahoo throws on this response
YahooSearchThrows(response) == response.kind # "ok"

\* the slot of a new call: the first one whose call is not in flight
\* what an Alpha Vantage response carried, as far as the history keeps it:
\* the 'Note' field, an empty 'Time Series (Daily)', or anything else
Carried(response) ==
    IF response.body = "note" THEN "note"
    ELSE IF response.body = "series" /\ response.series = <<>> THEN "empty_series"
    ELSE "other"

\* no Alpha Vantage response was handled by the latest step
NoAlpha == [run |-> <<>>, carried |-> "none"]

\* the latest step settled no searchStock call that had been overtaken
NoDone == FALSE

\* the call id settles in this step: whether a call that started after it
\* has settled before it, and another symbol is on screen
Done(id) ==
    /\ searches[id].overtaken
    /\ stockInfo.shown /\ stockInfo.symbol # searches[id].symbol

FreeSlot(id) ==
    /\ ~InFlight(searches[id])
    /\ \A j \in SearchIds : j < id => InFlight(searches[j])

\* searchStock, from the click or the Enter key to the Alpha Vantage fetch
SearchStock(id, input, timeRange) ==
    /\ ~isComparisonMode
    /\ FreeSlot(id)
    /\ LET symbol == ToUpperCase(Trim(input))
       IN IF symbol = <<>>
          THEN /\ error' = "enter_symbol"
               /\ UNCHANGED <<searches, loading, searchDisabled>>
          ELSE IF ~isValidStockSymbol(symbol)
          THEN /\ error' = "invalid_symbol"
               /\ UNCHANGED <<searches, loading, searchDisabled>>
          ELSE /\ error' = "none"
               /\ loading' = TRUE
               /\ searchDisabled' = TRUE
               /\ searches' = [searches EXCEPT ![id] =
                     [pc |-> FirstSource, symbol |-> symbol, timeRange |-> timeRange,
                      proxy |-> 0, attempts |-> <<Attempt(FirstSource)>>,
                      outcome |-> "none",
                      rank |-> Cardinality({j \in SearchIds : InFlight(searches[j])}),
                      overtaken |-> FALSE]]
    /\ UNCHANGED <<isComparisonMode, chartJsLoaded, chart, instances, stockInfo, cmpVars, yVars, aVars, mVars, cVars, tVars, uVars>>
    /\ lastAlpha' = NoAlpha
    /\ lastDone' = NoDone

\* the Alpha Vantage fetch of a call settles: searchStockAlphaVantage runs to
\* its end, and searchStock to its finally block or to the first Yahoo fetch
AlphaSettles(id, response) ==
    LET search == searches[id]
    IN /\ search.pc = FirstSource
       /\ IF AlphaSearchThrows(response)
          THEN /\ searches' = [searches EXCEPT ![id] =
                     [search EXCEPT !.pc = FallbackAfter(search.pc), !.proxy = 1,
                                    !.attempts = Settled(search.attempts, "threw")
                                                 \o <<Attempt(FallbackAfter(search.pc))>>]]
               /\ UNCHANGED <<chart, instances, stockInfo, loading, searchDisabled, error>>
          ELSE LET chartResult == AlphaChartResult(response.series, search.timeRange)
                   created == createChart(chart, chartResult, search.symbol, "AlphaVantage")
               IN IF created.threw
                  THEN \* the info panel is written, then 'new Chart' throws
                       /\ stockInfo' = updateStockInfo(chartResult, Undefined,
                                                       search.symbol, "AlphaVantage")
                       /\ chart' = created.chart
                       /\ instances' = [instances EXCEPT
                                          !["stockChart"] = Counted(@, created)]
                       /\ searches' = [searches EXCEPT ![id] =
                             [search EXCEPT
                                !.pc = FallbackAfter(search.pc), !.proxy = 1,
                                !.attempts = Settled(search.attempts, "threw")
                                             \o <<Attempt(FallbackAfter(search.pc))>>]]
                       /\ UNCHANGED <<loading, searchDisabled, error>>
                  ELSE
                  /\ stockInfo' = updateStockInfo(chartResult, Undefined, search.symbol,
                                                  "AlphaVantage")
                  /\ chart' = created.chart
                  /\ instances' = [instances EXCEPT !["stockChart"] = Counted(@, created)]
                  /\ error' = IF created.invalid THEN "invalid_chart" ELSE error
                  /\ loading' = FALSE
                  /\ searchDisabled' = FALSE
                  /\ searches' = Finished(id, Settled(search.attempts, "returned"),
                                          "resolved")
       /\ UNCHANGED <<isComparisonMode, chartJsLoaded, cmpVars, yVars, aVars, mVars, cVars, tVars, uVars>>
       /\ lastAlpha' = [run |-> <<id>>, carried |-> Carried(response)]
       /\ lastDone' = IF \/ AlphaSearchThrows(response)
                         \/ createChart(chart,
                                        AlphaChartResult(response.series,
                                                         searches[id].timeRange),
                                        searches[id].symbol, "AlphaVantage").threw
                      THEN NoDone ELSE Done(id)

\* the fetches of one proxy attempt settle without a usable result: the next
\* proxy is tried
YahooProxyFails(id, response) ==
    LET search == searches[id]
        created == createChart(chart, response.result, search.symbol, "Yahoo")
    IN /\ search.pc = "Yahoo" /\ search.proxy < 3
       /\ IF YahooSearchThrows(response)
          THEN UNCHANGED <<chart, instances, stockInfo>>
          ELSE \* the info panel is written, then 'new Chart' throws
               /\ created.threw
               /\ stockInfo' = updateStockInfo(response.result, YahooQuotePrice,
                                               search.symbol, "Yahoo")
               /\ chart' = created.chart
               /\ instances' = [instances EXCEPT !["stockChart"] = Counted(@, created)]
       /\ searches' = [searches EXCEPT ![id] = [search EXCEPT !.proxy = search.proxy + 1]]
       /\ UNCHANGED <<isComparisonMode, chartJsLoaded, loading, searchDisabled, error,
                      cmpVars, yVars, aVars, mVars, cVars, tVars, uVars>>
       /\ lastAlpha' = NoAlpha
       /\ lastDone' = NoDone

\* the fetches of a proxy attempt settle with a result: searchStockYahoo
\* returns, searchStock runs its finally block
YahooSucceeds(id, response) ==
    LET search == searches[id]
        created == createChart(chart, response.result, search.symbol, "Yahoo")
    IN /\ search.pc = "Yahoo"
       /\ ~YahooSearchThrows(response)
       /\ ~created.threw
       /\ stockInfo' = updateStockInfo(response.result, YahooQuotePrice, search.symbol,
                                       "Yahoo")
       /\ chart' = created.chart
       /\ instances' = [instances EXCEPT !["stockChart"] = Counted(@, created)]
       /\ error' = IF created.invalid THEN "invalid_chart" ELSE error
       /\ loading' = FALSE
       /\ searchDisabled' = FALSE
       /\ searches' = Finished(id, Settled(search.attempts, "returned"), "resolved")
       /\ UNCHANGED <<isComparisonMode, chartJsLoaded, cmpVars, yVars, aVars, mVars, cVars, tVars, uVars>>
       /\ lastAlpha' = NoAlpha
       /\ lastDone' = Done(id)

\* the last proxy fails: searchStockYahoo throws, searchStock falls back to
\* searchStockMockData, shows the demo-data message and runs its finally block
\* the mock fallback without the finally block of searchStock
YahooFailsMockRuns_keepsLoading(id, response, stream) ==
    LET search == searches[id]
        chartResult == MockChartResults[search.timeRange][stream]
        yahoo == createChart(chart, response.result, search.symbol, "Yahoo")
        \* the chart variable the last proxy attempt leaves
        left == IF YahooSearchThrows(response) THEN chart ELSE yahoo.chart
        created == createChart(left, chartResult, search.symbol, "Mock")
    IN /\ search.pc = "Yahoo" /\ search.proxy = 3
       /\ YahooSearchThrows(response) \/ yahoo.threw
       /\ stockInfo' = updateStockInfo(chartResult, Undefined, search.symbol, "Mock")
       /\ chart' = created.chart
       /\ instances' = [instances EXCEPT !["stockChart"] =
                           Counted(IF YahooSearchThrows(response) THEN @
                                   ELSE Counted(@, yahoo), created)]
       \* 'new Chart' throwing in searchStockMockData reaches catch (mockError)
       /\ error' = IF created.threw THEN "no_data" ELSE "demo_data"
       /\ UNCHANGED <<loading, searchDisabled>>
       /\ searches' = Finished(id,
                               Settled(Settled(search.attempts, "threw")
                                       \o <<Attempt(FallbackAfter(search.pc))>>,
                                       "returned"),
                               "resolved")
       /\ UNCHANGED <<isComparisonMode, chartJsLoaded, cmpVars, yVars, aVars, mVars, cVars, tVars, uVars>>
       /\ lastAlpha' = NoAlpha
       /\ lastDone' = Done(id)

YahooFailsMockRuns(id, response, stream) ==
    LET search == searches[id]
        chartResult == MockChartResults[search.timeRange][stream]
        yahoo == createChart(chart, response.result, search.symbol, "Yahoo")
        \* the chart variable the last proxy attempt leaves
        left == IF YahooSearchThrows(response) THEN chart ELSE yahoo.chart
        created == createChart(left, chartResult, search.symbol, "Mock")
    IN /\ search.pc = "Yahoo" /\ search.proxy = 3
       /\ YahooSearchThrows(response) \/ yahoo.threw
       /\ stockInfo' = updateStockInfo(chartResult, Undefined, search.symbol, "Mock")
       /\ chart' = created.chart
       /\ instances' = [instances EXCEPT !["stockChart"] =
                           Counted(IF YahooSearchThrows(response) THEN @
                                   ELSE Counted(@, yahoo), created)]
       \* 'new Chart' throwing in searchStockMockData reaches catch (mockError)
       /\ error' = IF created.threw THEN "no_data" ELSE "demo_data"
       /\ loading' = FALSE
       /\ searchDisabled' = FALSE
       /\ searches' = Finished(id,
                               Settled(Settled(search.attempts, "threw")
                                       \o <<Attempt(FallbackAfter(search.pc))>>,
                                       "returned"),
                               "resolved")
       /\ UNCHANGED <<isComparisonMode, chartJsLoaded, cmpVars, yVars, aVars, mVars, cVars, tVars, uVars>>
       /\ lastAlpha' = NoAlpha
       /\ lastDone' = Done(id)

(* The fallback chain of fetchStockData, run twice by compareStocks         *)
(* (comparison mode)                                                       *)

MaxCompares == 1

CompareIds == 1..MaxCompares
Sides == {"A", "B"}

\* what the single fetch of fetchStockDataYahoo can settle to
YahooFetchResponses ==
    { [kind |-> f, result |-> EmptyYahooResult(Undefined)] :
        f \in {"network_error", "not_json", "no_result"} }
    \cup { [kind |-> "ok", result |-> r] : r \in ChainYahooResults }

NoFetch == [pc |-> "idle", attempts |-> <<>>, outcome |-> "none", data |-> NoResult]

NoCompare == [pc |-> "idle", symbol |-> [side \in Sides |-> <<>>], timeRange |-> 0,
              fetch |-> [side \in Sides |-> NoFetch]]

NoPanel == [title |-> <<>>, info |-> NoInfo, chart |-> NoChart]

\* fetchStockDataAlphaVantage: what it returns, or that it throws
fetchStockDataAlphaVantage(response, timeRange) ==
    IF \/ response.kind = "network_error"
       \/ response.body # "series"
    THEN [NoResult EXCEPT !.threw = TRUE, !.done = TRUE]
    ELSE processAlphaVantageData(response.series, timeRange)

\* fetchStockDataYahoo: what it returns, or that it throws
fetchStockDataYahoo(response) ==
    IF response.kind # "ok"
    THEN [NoResult EXCEPT !.threw = TRUE, !.done = TRUE]
    ELSE processYahooFinanceData(response.result)

\* updateComparisonStockInfo(side, data, symbol): whether
\* data.prices[data.prices.length - 1].close throws
ComparisonInfoThrows(data) == ~Truthy(data.currentPrice) /\ Len(data.prices) = 0

updateComparisonStockInfo(data, symbol, source) ==
    [shown |-> TRUE, symbol |-> symbol, source |-> source,
     currentPrice |-> JsOr(data.currentPrice,
                           IF Len(data.prices) > 0 THEN Last(data.prices).close
                           ELSE Undefined)]

\* createComparisonChart(side, data, symbol): the chart variable of the side,
\* whether a Chart was destroyed, whether a new one was constructed and
\* whether 'new Chart' threw
createComparisonChart(old, data, symbol, source) ==
    IF ~chartJsLoaded
    THEN [chart |-> IF old.state = "null" THEN old ELSE DestroyedChart,
          destroys |-> old.state = "live", creates |-> FALSE, threw |-> TRUE]
    ELSE [chart |-> [state |-> "live", symbol |-> symbol, source |-> source,
                     prices |-> [j \in 1..Len(data.prices) |-> data.prices[j].close]],
          destroys |-> old.state = "live", creates |-> TRUE, threw |-> FALSE]

\* the source whose result a finished run of fetchStockData returned
SourceOf(fetch) == Last(fetch.attempts).source

FreeCompareSlot(c) ==
    /\ compares[c].pc # "fetching"
    /\ \A j \in CompareIds : j < c => compares[j].pc = "fetching"

\* compareStocks, from the click or the Enter key to the two Alpha Vantage
\* fetches of Promise.all
CompareStocks(c, inputA, inputB, timeRange) ==
    /\ isComparisonMode
    /\ FreeCompareSlot(c)
    /\ LET symbolA == ToUpperCase(Trim(inputA))
           symbolB == ToUpperCase(Trim(inputB))
       IN IF symbolA = <<>> \/ symbolB = <<>>
          THEN /\ error' = "enter_both_symbols"
               /\ UNCHANGED <<compares, loading, compareDisabled>>
          ELSE IF symbolA = symbolB
          THEN /\ error' = "different_symbols"
               /\ UNCHANGED <<compares, loading, compareDisabled>>
          ELSE IF ~isValidStockSymbol(symbolA) \/ ~isValidStockSymbol(symbolB)
          THEN /\ error' = "invalid_symbol"
               /\ UNCHANGED <<compares, loading, compareDisabled>>
          ELSE /\ error' = "none"
               /\ loading' = TRUE
               /\ compareDisabled' = TRUE
               /\ compares' = [compares EXCEPT ![c] =
                     [pc |-> "fetching",
                      symbol |-> [side \in Sides |-> IF side = "A" THEN symbolA ELSE symbolB],
                      timeRange |-> timeRange,
                      fetch |-> [side \in Sides |->
                                   [NoFetch EXCEPT !.pc = FirstSource,
                                                   !.attempts = <<Attempt(FirstSource)>>]]]]
    /\ UNCHANGED <<isComparisonMode, chartJsLoaded, searches, chart, instances, stockInfo, searchDisabled, panels,
                   yVars, aVars, mVars, cVars, tVars, uVars>>
    /\ lastAlpha' = NoAlpha
    /\ lastDone' = NoDone

\* the Alpha Vantage fetch of one side settles: fetchStockData returns its
\* data, or goes on to the Yahoo fetch
FetchAlphaSettles(c, side, response) ==
    LET fetch == compares[c].fetch[side]
        data == fetchStockDataAlphaVantage(response, compares[c].timeRange)
    IN /\ fetch.pc = FirstSource
       /\ compares' = [compares EXCEPT ![c].fetch[side] =
             IF data.threw
             THEN [fetch EXCEPT !.pc = FallbackAfter(fetch.pc),
                                !.attempts = Settled(fetch.attempts, "threw")
                                             \o <<Attempt(FallbackAfter(fetch.pc))>>]
             ELSE [fetch EXCEPT !.pc = "done", !.outcome = "resolved", !.data = data,
                                !.attempts = Settled(fetch.attempts, "returned")]]
       /\ UNCHANGED <<isComparisonMode, chartJsLoaded, searches, chart, instances, stockInfo, loading,
                      searchDisabled, error, panels, compareDisabled,
                      yVars, aVars, mVars, cVars, tVars, uVars>>
       /\ lastAlpha' = [run |-> <<c, side>>, carried |-> Carried(response)]
       /\ lastDone' = NoDone

\* the Yahoo fetch of one side settles with a chart result that
\* processYahooFinanceData accepts: fetchStockData returns its data
FetchYahooSucceeds(c, side, response) ==
    LET fetch == compares[c].fetch[side]
        data == fetchStockDataYahoo(response)
    IN /\ fetch.pc = "Yahoo"
       /\ ~data.threw
       /\ compares' = [compares EXCEPT ![c].fetch[side] =
             [fetch EXCEPT !.pc = "done", !.outcome = "resolved", !.data = data,
                           !.attempts = Settled(fetch.attempts, "returned")]]
       /\ UNCHANGED <<isComparisonMode, chartJsLoaded, searches, chart, instances, stockInfo, loading,
                      searchDisabled, error, panels, compareDisabled,
                      yVars, aVars, mVars, cVars, tVars, uVars>>
       /\ lastAlpha' = NoAlpha
       /\ lastDone' = NoDone

\* the Yahoo fetch of one side fails: fetchStockData returns what
\* generateMockStockData returns, or rejects when that throws
FetchYahooFailsMockRuns(c, side, response, stream) ==
    LET fetch == compares[c].fetch[side]
        data == MockStockData[compares[c].timeRange][stream]
        attempts == Settled(fetch.attempts, "threw")
                    \o <<Attempt(FallbackAfter(fetch.pc))>>
    IN /\ fetch.pc = "Yahoo"
       /\ fetchStockDataYahoo(response).threw
       /\ compares' = [compares EXCEPT ![c].fetch[side] =
             IF data.threw
             THEN [fetch EXCEPT !.pc = "done", !.outcome = "rejected",
                                !.attempts = Settled(attempts, "threw")]
             ELSE [fetch EXCEPT !.pc = "done", !.outcome = "resolved", !.data = data,
                                !.attempts = Settled(attempts, "returned")]]
       /\ UNCHANGED <<isComparisonMode, chartJsLoaded, searches, chart, instances, stockInfo, loading,
                      searchDisabled, error, panels, compareDisabled,
                      yVars, aVars, mVars, cVars, tVars, uVars>>
       /\ lastAlpha' = NoAlpha
       /\ lastDone' = NoDone

\* Promise.all has both results: compareStocks updates the titles, the info
\* panels and the charts, and runs its finally block
CompareRenders(c) ==
    LET compare == compares[c]
        Fetched(side) == compare.fetch[side].data
        Created(side) == createComparisonChart(panels[side].chart, Fetched(side),
                                               compare.symbol[side],
                                               SourceOf(compare.fetch[side]))
    IN /\ compare.pc = "fetching"
       /\ \A side \in Sides : compare.fetch[side].outcome = "resolved"
       /\ IF ComparisonInfoThrows(Fetched("A"))
          THEN /\ panels' = [side \in Sides |->
                               [panels[side] EXCEPT !.title = compare.symbol[side]]]
               /\ error' = "compare_failed"
               /\ UNCHANGED instances
          ELSE IF ComparisonInfoThrows(Fetched("B"))
          THEN /\ panels' = [side \in Sides |->
                               [panels[side] EXCEPT
                                  !.title = compare.symbol[side],
                                  !.info = IF side = "A"
                                           THEN updateComparisonStockInfo(
                                                    Fetched(side), compare.symbol[side],
                                                    SourceOf(compare.fetch[side]))
                                           ELSE @]]
               /\ error' = "compare_failed"
               /\ UNCHANGED instances
          ELSE IF Created("A").threw
          THEN \* both info panels are written, then 'new Chart' of side A throws
               /\ panels' = [side \in Sides |->
                               [title |-> compare.symbol[side],
                                info |-> updateComparisonStockInfo(
                                             Fetched(side), compare.symbol[side],
                                             SourceOf(compare.fetch[side])),
                                chart |-> IF side = "A" THEN Created(side).chart
                                          ELSE panels[side].chart]]
               /\ instances' = [instances EXCEPT
                                  ![CanvasOf("A")] = Counted(@, Created("A"))]
               /\ error' = "compare_failed"
          ELSE /\ panels' = [side \in Sides |->
                               [title |-> compare.symbol[side],
                                info |-> updateComparisonStockInfo(
                                             Fetched(side), compare.symbol[side],
                                             SourceOf(compare.fetch[side])),
                                chart |-> Created(side).chart]]
               /\ instances' = [canvas \in Canvases |->
                                  IF \E side \in Sides : canvas = CanvasOf(side)
                                  THEN Counted(instances[canvas],
                                               Created(IF canvas = CanvasOf("A")
                                                       THEN "A" ELSE "B"))
                                  ELSE instances[canvas]]
               /\ UNCHANGED error
       /\ loading' = FALSE
       /\ compareDisabled' = FALSE
       /\ compares' = [compares EXCEPT ![c] = [NoCompare EXCEPT !.pc = "done"]]
       /\ UNCHANGED <<isComparisonMode, chartJsLoaded, searches, chart, stockInfo, searchDisabled,
                      yVars, aVars, mVars, cVars, tVars, uVars>>
       /\ lastAlpha' = NoAlpha
       /\ lastDone' = NoDone

\* Promise.all rejects as soon as one fetchStockData has rejected:
\* compareStocks shows the failure and runs its finally block; the other
\* run goes on, its result unused
CompareFails(c) ==
    LET compare == compares[c]
    IN /\ compare.pc = "fetching"
       /\ \E side \in Sides : compare.fetch[side].outcome = "rejected"
       /\ error' = "compare_failed"
       /\ loading' = FALSE
       /\ compareDisabled' = FALSE
       /\ compares' = [compares EXCEPT ![c].pc = "failed"]
       /\ UNCHANGED <<isComparisonMode, chartJsLoaded, searches, chart, instances, stockInfo, searchDisabled,
                      panels, yVars, aVars, mVars, cVars, tVars, uVars>>
       /\ lastAlpha' = NoAlpha
       /\ lastDone' = NoDone

AppIdle ==
    /\ isComparisonMode = FALSE
    /\ searches = [id \in SearchIds |-> NoSearch]
    /\ chart = NoChart /\ stockInfo = NoInfo
    /\ loading = FALSE /\ searchDisabled = FALSE /\ error = "none"
    /\ compares = [c \in CompareIds |-> NoCompare]
    /\ panels = [side \in Sides |-> NoPanel]
    /\ compareDisabled = FALSE
    /\ instances = [canvas \in Canvases |-> 0]
    /\ chartJsLoaded = TRUE
    /\ lastAlpha = NoAlpha
    /\ lastDone = NoDone

\* the steps of comparison mode
NextCompare ==
    \/ \E c \in CompareIds, a \in SymbolInputs, b \in SymbolInputs, t \in ChainRanges :
          CompareStocks(c, a, b, t)
    \/ \E c \in CompareIds, side \in Sides, r \in AlphaResponses :
          FetchAlphaSettles(c, side, r)
    \/ \E c \in CompareIds, side \in Sides, r \in YahooFetchResponses :
          FetchYahooSucceeds(c, side, r)
    \/ \E c \in CompareIds, side \in Sides, r \in YahooFetchResponses,
          st \in ChainStreams : FetchYahooFailsMockRuns(c, side, r, st)
    \/ \E c \in CompareIds : CompareRenders(c)
    \/ \E c \in CompareIds : CompareFails(c)

\* the steps of single-stock mode
NextSearch ==
    \/ \E id \in SearchIds, input \in SymbolInputs, t \in SearchRanges :
          SearchStock(id, input, t)
    \/ \E id \in SearchIds, r \in AlphaResponses : AlphaSettles(id, r)
    \/ \E id \in SearchIds, r \in YahooResponses : YahooProxyFails(id, r)
    \/ \E id \in SearchIds, r \in YahooResponses : YahooSucceeds(id, r)
    \/ \E id \in SearchIds, r \in YahooResponses, st \in ChainStreams :
          YahooFailsMockRuns(id, r, st)

NextChain == NextCompare \/ NextSearch

\* the order in which a run tries the sources
SourceOrder == <<"AlphaVantage", "Yahoo", "Mock">>

\* the attempts of a run so far follow the order, each source tried only
\* after every earlier one threw; pc is where the run is
InOrder(pc, attempts) ==
    /\ Len(attempts) <= Len(SourceOrder)
    /\ \A k \in 1..Len(attempts) : attempts[k].source = SourceOrder[k]
    /\ \A k \in 1..(Len(attempts) - 1) : attempts[k].result = "threw"
    /\ pc \notin {"idle", "done"} => Last(attempts) = Attempt(pc)
    /\ pc = "done" => Last(attempts).result \in {"returned", "threw"}

\* C1: in every run of searchStock and of fetchStockData the sources are
\* attempted in the order Alpha Vantage, Yahoo Finance, mock generator: Yahoo
\* only after the Alpha Vantage attempt threw, the mock generator only after
\* both threw, and nothing after an attempt that returned.
C1_FixedSourceOrder ==
    /\ \A id \in SearchIds :
          searches[id].pc # "idle" => InOrder(searches[id].pc, searches[id].attempts)
    /\ \A c \in CompareIds, side \in Sides :
          compares[c].pc # "idle" =>
              InOrder(compares[c].fetch[side].pc, compares[c].fetch[side].attempts)

\* C1 witness: the two runs of fetchStockData of one comparison are over, one
\* after going through all three sources, the other stopped at Yahoo
C1_Witness ==
    \E c \in CompareIds :
        /\ compares[c].pc = "fetching"
        /\ compares[c].fetch["A"].pc = "done"
        /\ Len(compares[c].fetch["A"].attempts) = 3
        /\ Last(compares[c].fetch["A"].attempts) = [source |-> "Mock", result |-> "returned"]
        /\ compares[c].fetch["B"].pc = "done"
        /\ Len(compares[c].fetch["B"].attempts) = 2
        /\ Last(compares[c].fetch["B"].attempts) = [source |-> "Yahoo", result |-> "returned"]

\* both the Alpha Vantage and the Yahoo attempt of a run threw
BothSourcesThrew(attempts) ==
    /\ Len(attempts) >= 2
    /\ attempts[1].result = "threw"
    /\ attempts[2].result = "threw"

PositiveRange(timeRange) == IsNumber(timeRange) /\ timeRange >= 1

\* C2: for a valid symbol and a positive timeRange, once the Alpha Vantage
\* and the Yahoo attempt of a run have thrown, the mock generator has been
\* invoked and the run has resolved: fetchStockData with the timeRange points
\* of generateMockStockData, searchStock with nothing propagated; no run
\* rejects.
C2_MockFallbackResolves ==
    /\ \A id \in SearchIds :
          /\ searches[id].outcome # "rejected"
          /\ BothSourcesThrew(searches[id].attempts) =>
                /\ searches[id].pc = "done"
                /\ searches[id].outcome = "resolved"
                /\ searches[id].attempts[3] = [source |-> "Mock", result |-> "returned"]
    /\ \A c \in CompareIds, side \in Sides :
          LET fetch == compares[c].fetch[side]
          IN PositiveRange(compares[c].timeRange) =>
               /\ fetch.outcome # "rejected"
               /\ BothSourcesThrew(fetch.attempts) =>
                     /\ fetch.pc = "done"
                     /\ fetch.outcome = "resolved"
                     /\ fetch.attempts[3] = [source |-> "Mock", result |-> "returned"]
                     /\ \E st \in ChainStreams :
                           fetch.data = MockStockData[compares[c].timeRange][st]
                     /\ Len(fetch.data.prices) = compares[c].timeRange

\* C2 witness: a searchStock call went through the two failing sources and
\* resolved with the demo data on the chart
C2_Witness ==
    \E id \in SearchIds :
        /\ BothSourcesThrew(searches[id].attempts)
        /\ searches[id].outcome = "resolved"
        /\ chart.state = "live" /\ chart.source = "Mock"
        /\ error = "demo_data"
        /\ ~loading

\* a non-empty sequence of finite, positive closes
ValidCloses(closes) ==
    /\ Len(closes) > 0
    /\ \A k \in 1..Len(closes) : Positive(closes[k])

\* C3: the sequence fetchStockData returns (for a positive timeRange) and
\* the sequence searchStock renders are non-empty, and every close in them
\* is finite and positive, whichever source produced them.
C3_ChainSequenceValid ==
    /\ chart.state = "live" => ValidCloses(chart.prices)
    /\ \A c \in CompareIds, side \in Sides :
          LET fetch == compares[c].fetch[side]
          IN (PositiveRange(compares[c].timeRange) /\ fetch.outcome = "resolved") =>
                ValidCloses([k \in 1..Len(fetch.data.prices) |-> fetch.data.prices[k].close])

\* the sources that answer over the network
NetworkSources == {"AlphaVantage", "Yahoo"}

\* validateStockData (performance.md): the fewest points of a valid result
MinValidPoints == 5

\* C11: searchStock never renders, and fetchStockData never returns, an
\* Alpha Vantage or Yahoo Finance result with fewer than 5 points: such a
\* result is rejected and the chain goes on to the next source.
C11_FewPointsRejected ==
    /\ (chart.state = "live" /\ chart.source \in NetworkSources) =>
          Len(chart.prices) >= MinValidPoints
    /\ \A c \in CompareIds, side \in Sides :
          LET fetch == compares[c].fetch[side]
          IN (fetch.outcome = "resolved" /\ SourceOf(fetch) \in NetworkSources) =>
                Len(fetch.data.prices) >= MinValidPoints

\* the run that handled the Alpha Vantage response of the latest step has
\* seen its Alpha Vantage attempt throw and has gone on to Yahoo Finance
AlphaThrewYahooFollows(run) ==
    LET r == IF Len(run) = 1 THEN searches[run[1]]
             ELSE compares[run[1]].fetch[run[2]]
    IN /\ r.pc = "Yahoo"
       /\ r.attempts = <<[source |-> "AlphaVantage", result |-> "threw"],
                         [source |-> "Yahoo", result |-> "pending"]>>

\* C12: an Alpha Vantage response whose 'Time Series (Daily)' is present but
\* empty makes the Alpha Vantage attempt throw and the chain go on to Yahoo
\* Finance, in single-stock and in comparison mode alike.
C12_EmptySeriesThrows ==
    lastAlpha.carried = "empty_series" => AlphaThrewYahooFollows(lastAlpha.run)

\* C13: a step that handles an Alpha Vantage response carrying 'Note' leaves
\* the stock info, the chart and the comparison panels as they were, and
\* the run has gone on to its Yahoo Finance attempt.
C13_NoteNeverUsed ==
    [][lastAlpha'.carried = "note" =>
          /\ chart' = chart /\ stockInfo' = stockInfo /\ panels' = panels
          /\ AlphaThrewYahooFollows(lastAlpha.run)']_vars

\* C13 witness: a searchStock call has just received the 'Note' response
\* while the chart of an earlier search is on screen
C13_Witness ==
    /\ lastAlpha.carried = "note"
    /\ Len(lastAlpha.run) = 1
    /\ searches[lastAlpha.run[1]].pc = "Yahoo"
    /\ chart.state = "live"
    /\ stockInfo.shown

\* C14: within one run of the chain each source is attempted exactly once:
\* no source is asked again after an exception, the first exception moves
\* the run on to the next source.
C14_OneAttemptPerSource ==
    /\ \A id \in SearchIds :
          /\ searches[id].proxy <= 1
          /\ \A k, l \in 1..Len(searches[id].attempts) :
                searches[id].attempts[k].source = searches[id].attempts[l].source => k = l
    /\ \A c \in CompareIds, side \in Sides :
          \A k, l \in 1..Len(compares[c].fetch[side].attempts) :
              compares[c].fetch[side].attempts[k].source
                  = compares[c].fetch[side].attempts[l].source => k = l

\* the searchStock call id settles in this step
Settles(id) == InFlight(searches[id]) /\ searches'[id].pc = "done"

\* after the step the stock info, and the chart if there is one, are those
\* of the symbol
OnScreen(symbol) ==
    /\ stockInfo'.shown /\ stockInfo'.symbol = symbol
    /\ chart'.state = "live" => chart'.symbol = symbol

\* C15: a searchStock call in flight is neither aborted nor changed by the
\* start or the progress of another call; whenever a call settles, the stock
\* info and the chart left on screen are its own, whatever was there before;
\* and nothing but a call that settles changes them.
C15_LastCompletionWins ==
    [][/\ \A id \in SearchIds :
            /\ Settles(id) =>
                  /\ searches'[id].outcome = "resolved"
                  /\ OnScreen(searches[id].symbol)
            /\ InFlight(searches[id]) =>
                  \/ Settles(id)
                  \/ /\ InFlight(searches'[id])
                     /\ searches'[id].symbol = searches[id].symbol
                     /\ searches'[id].timeRange = searches[id].timeRange
       /\ (\A id \in SearchIds : ~Settles(id)) =>
             (chart' = chart /\ stockInfo' = stockInfo)]_vars

\* C15 witness: two calls for different symbols were in flight at once, the
\* one started second settled first, and now the one started first has
\* settled: every call is over and the chart and the stock info on screen
\* are its own
C15_Witness ==
    /\ lastDone
    /\ \A id \in SearchIds : searches[id].pc = "done"
    /\ chart.state = "live" /\ Len(chart.prices) > 0
    /\ stockInfo.shown /\ stockInfo.symbol = chart.symbol
    /\ ~loading

\* low <= open <= high and low <= close <= high
OhlcOrdered(point) ==
    /\ point.low <= point.open /\ point.open <= point.high
    /\ point.low <= point.close /\ point.close <= point.high

\* C16: every point generateMockStockData produces has its open and its
\* close between its low and its high, and the dates of the sequence are
\* strictly increasing.
C16_MockOhlcOrdered ==
    (mData.done /\ ~mData.threw) =>
        /\ \A k \in 1..Len(mData.prices) : OhlcOrdered(mData.prices[k])
        /\ \A k \in 1..(Len(mData.prices) - 1) :
              mData.prices[k].date < mData.prices[k + 1].date

\* one to five letters A-Z
OneToFiveLetters(symbol) ==
    /\ Len(symbol) \in 1..5
    /\ \A k \in 1..Len(symbol) : symbol[k] \in {"A", "M"}

----------------------------------------------------------------------------
(* ThemeManager (src/utils.js).  Every page of the dashboard loads utils.js, *)
(* which constructs one ThemeManager for the page's document; the pages     *)
(* share the browser's localStorage.                                        *)

Pages == {"index", "dashboard"}
Themes == {"light", "dark"}

\* localStorage.getItem returns null for a key that was never set
NoStoredTheme == "null"

\* "ok": getItem and setItem work; "readonly": setItem throws (quota, private
\* mode); "blocked": both throw (storage disabled for the origin)
StorageAccesses == {"ok", "readonly", "blocked"}

\* a page whose script has not run has no ThemeManager
NoThemeManager == [state |-> "none", currentTheme |-> "undefined"]

\* getStoredTheme(): the stored value, or null when localStorage throws
getStoredTheme == IF storageAccess = "blocked" THEN NoStoredTheme ELSE storage

\* storeTheme(theme): the value of the key afterwards; a throw is swallowed
storeTheme(theme) == IF storageAccess = "ok" THEN theme ELSE storage

\* applyTheme(theme) of the manager of page p: data-theme, currentTheme, storage
applyTheme(p, theme) ==
    /\ dataTheme' = [dataTheme EXCEPT ![p] = theme]
    /\ themeManager' = [themeManager EXCEPT ![p] = [state |-> "ready", currentTheme |-> theme]]
    /\ storage' = storeTheme(theme)
    /\ lastApplied' = theme

\* the constructor: currentTheme = getStoredTheme() || 'light', then init(),
\* which runs setupTheme at once unless the document is still loading
NewThemeManager(p, readyState) ==
    /\ themeManager[p].state = "none"
    /\ LET currentTheme == IF getStoredTheme = NoStoredTheme THEN "light" ELSE getStoredTheme
       IN  IF readyState = "loading"
           THEN /\ themeManager' = [themeManager EXCEPT
                       ![p] = [state |-> "constructed", currentTheme |-> currentTheme]]
                /\ UNCHANGED <<storage, dataTheme, lastApplied>>
           ELSE applyTheme(p, currentTheme)
    /\ UNCHANGED <<storageAccess, yVars, aVars, mVars, cVars, sVars, uVars>>

\* DOMContentLoaded on a page whose manager deferred setupTheme
setupTheme(p) ==
    /\ themeManager[p].state = "constructed"
    /\ applyTheme(p, themeManager[p].currentTheme)
    /\ UNCHANGED <<storageAccess, yVars, aVars, mVars, cVars, sVars, uVars>>

toggleTheme_keepsStorage(p) ==
    /\ themeManager[p].state = "ready"
    /\ LET newTheme == IF themeManager[p].currentTheme = "light" THEN "dark" ELSE "light"
       IN  /\ dataTheme' = [dataTheme EXCEPT ![p] = newTheme]
           /\ themeManager' = [themeManager EXCEPT ![p].currentTheme = newTheme]
           /\ lastApplied' = newTheme
    /\ UNCHANGED <<storage, storageAccess, yVars, aVars, mVars, cVars, sVars, uVars>>

\* a click on the theme toggle of page p (the listener setupTheme added)
toggleTheme(p) ==
    /\ themeManager[p].state = "ready"
    /\ LET newTheme == IF themeManager[p].currentTheme = "light" THEN "dark" ELSE "light"
       IN  applyTheme(p, newTheme)
    /\ UNCHANGED <<storageAccess, yVars, aVars, mVars, cVars, sVars, uVars>>

\* the page is reloaded or left: its document and its script's objects are gone
Unload(p) ==
    /\ themeManager[p].state # "none"
    /\ themeManager' = [themeManager EXCEPT ![p] = NoThemeManager]
    /\ dataTheme' = [dataTheme EXCEPT ![p] = NoStoredTheme]
    /\ UNCHANGED <<lastApplied, storage, storageAccess, yVars, aVars, mVars, cVars, sVars, uVars>>

ThemeIdle ==
    /\ storage = NoStoredTheme /\ storageAccess = "ok"
    /\ themeManager = [p \in Pages |-> NoThemeManager]
    /\ dataTheme = [p \in Pages |-> NoStoredTheme]
    /\ lastApplied = NoStoredTheme

NextTheme ==
    \/ \E p \in Pages, readyState \in {"loading", "interactive"} : NewThemeManager(p, readyState)
    \/ \E p \in Pages : setupTheme(p)
    \/ \E p \in Pages : toggleTheme(p)
    \/ \E p \in Pages : Unload(p)

C19_ThemePersists ==
    [][\A p \in Pages :
          storageAccess = "ok" /\ lastApplied \in Themes
          => /\ (\E readyState \in {"loading", "interactive"} : NewThemeManager(p, readyState))
                => /\ themeManager'[p].currentTheme = lastApplied
                   /\ storage' = storage
             /\ setupTheme(p) => storage' = storage]_vars

----------------------------------------------------------------------------
(* The mode switch and the life of the Chart instances                      *)

\* clearStockInfo (utils.js) / clearComparisonInfo: the fields read '-'
ClearedInfo(info) == [NoInfo EXCEPT !.shown = info.shown]

\* toggleComparisonMode: the change handler of the comparisonMode checkbox
ToggleComparisonMode ==
    /\ isComparisonMode' = ~isComparisonMode
    /\ IF isComparisonMode'
       THEN /\ chart' = NoChart
            /\ instances' = [instances EXCEPT
                               !["stockChart"] = IF chart.state = "live" THEN @ - 1 ELSE @]
            /\ stockInfo' = ClearedInfo(stockInfo)
            /\ UNCHANGED panels
       ELSE /\ panels' = [side \in Sides |->
                            [title |-> <<>>, info |-> ClearedInfo(panels[side].info),
                             chart |-> NoChart]]
            /\ instances' = [canvas \in Canvases |->
                               IF \E side \in Sides : /\ canvas = CanvasOf(side)
                                                      /\ panels[side].chart.state = "live"
                               THEN instances[canvas] - 1
                               ELSE instances[canvas]]
            /\ UNCHANGED <<chart, stockInfo>>
    /\ error' = "none"
    /\ UNCHANGED <<chartJsLoaded, searches, loading, searchDisabled, compares,
                   compareDisabled, yVars, aVars, mVars, cVars, tVars, uVars>>
    /\ lastAlpha' = NoAlpha
    /\ lastDone' = NoDone

\* the inputs and responses the life of the charts is followed over: one
\* symbol per input field, one time range, and of each source a failure, a
\* result with its bars complete and, of Yahoo, a result createChart rejects
\* (with a day count as time range the mock generator returns, so that no
\* fetchStockData rejects and compareStocks always reaches its charts)
LifecycleAlpha ==
    { r \in AlphaResponses :
        \/ r.kind = "network_error"
        \/ /\ r.ok /\ r.body = "series" /\ Len(r.series) = MaxChainDates
           /\ \A k \in 1..Len(r.series) : r.series[k].close # Junk }
CompleteOrNone(r) ==
    /\ r.kind \in {"network_error", "ok"}
    /\ r.result.meta.regularMarketPrice = Undefined
    /\ Len(r.result.timestamp) = 0 => ~r.result.hasTimestamp
    /\ \A k \in 1..Len(r.result.timestamp) : r.result.quote.close[k] # Null
LifecycleYahoo == { r \in YahooResponses : CompleteOrNone(r) }
LifecycleYahooFetch == { r \in YahooFetchResponses : CompleteOrNone(r) }
LifecycleStreams == { st \in ChainStreams : st[1] = 0 }

NextLifecycle ==
    \/ ToggleComparisonMode
    \/ \E id \in SearchIds : SearchStock(id, <<"M">>, MaxChainRange)
    \/ \E id \in SearchIds, r \in LifecycleAlpha : AlphaSettles(id, r)
    \/ \E id \in SearchIds, r \in LifecycleYahoo : YahooProxyFails(id, r)
    \/ \E id \in SearchIds, r \in LifecycleYahoo : YahooSucceeds(id, r)
    \/ \E id \in SearchIds, r \in LifecycleYahoo, st \in LifecycleStreams :
          YahooFailsMockRuns(id, r, st)
    \/ \E c \in CompareIds : CompareStocks(c, <<"M">>, <<" ", "a">>, MaxChainRange)
    \/ \E c \in CompareIds, side \in Sides, r \in LifecycleAlpha :
          FetchAlphaSettles(c, side, r)
    \/ \E c \in CompareIds, side \in Sides, r \in LifecycleYahooFetch :
          FetchYahooSucceeds(c, side, r)
    \/ \E c \in CompareIds, side \in Sides, r \in LifecycleYahooFetch,
          st \in LifecycleStreams : FetchYahooFailsMockRuns(c, side, r, st)
    \/ \E c \in CompareIds : CompareRenders(c)

\* C20: at every moment at most one Chart that is not destroyed exists on
\* the single-chart canvas and at most one on each comparison canvas
C20_OneChartPerCanvas == \A canvas \in Canvases : instances[canvas] <= 1

\* a second search has replaced the chart of an earlier one, comparison
\* charts of both sides were drawn and the mode was switched in between
C20_Witness ==
    /\ instances = [canvas \in Canvases |-> 1]
    /\ chart.state = "live"
    /\ \A side \in Sides : panels[side].chart.state = "live"
    /\ \E id \in SearchIds : InFlight(searches[id])

\* C24: while a searchStock call is in flight (after its showLoading, before
\* its finally block) the loading indicator is shown and the search button
\* is disabled, also when two calls overlap
C24_LoadingWhileInFlight ==
    (\E id \in SearchIds : InFlight(searches[id])) => loading /\ searchDisabled

\* a fetch that searchStock call id awaits settles, with any response
Settle(id) ==
    \/ \E r \in AlphaResponses : AlphaSettles(id, r)
    \/ \E r \in YahooResponses : YahooProxyFails(id, r)
    \/ \E r \in YahooResponses : YahooSucceeds(id, r)
    \/ \E r \in YahooResponses, st \in ChainStreams : YahooFailsMockRuns(id, r, st)

\* the step takes call id from in flight to completed
Completes(id) == InFlight(searches[id]) /\ searches'[id].pc = "done"

\* C25: when every pending fetch eventually settles, every searchStock call
\* that has shown the loading indicator eventually completes; the step that
\* completes a call hides the loading indicator and enables the search
\* button; and a call advances only when a fetch it awaits settles
C25_SearchCompletes ==
    /\ \A id \in SearchIds : InFlight(searches[id]) ~> searches[id].pc = "done"
    /\ [][\A id \in SearchIds :
            /\ Completes(id) => ~loading' /\ ~searchDisabled'
            /\ InFlight(searches[id]) /\ searches'[id].pc # searches[id].pc
               => Settle(id)]_vars

\* a call completed on the mock data, after both network sources had failed,
\* with the loading indicator hidden and the button enabled
C25_Witness ==
    \E id \in SearchIds :
        /\ searches[id].pc = "done" /\ Len(searches[id].attempts) > 2
        /\ ~loading /\ ~searchDisabled /\ error = "demo_data"

\* C26: whenever comparison mode is on the chart variable is null, and
\* whenever single mode is on chartA and chartB are null
C26_ModeMatchesCharts ==
    /\ isComparisonMode => chart.state = "null"
    /\ ~isComparisonMode => \A side \in Sides : panels[side].chart.state = "null"

\* C27: after every completed searchStock the stock info panel and the chart
\* show data of the same symbol and of the same source, the chart being live
C27_InfoMatchesChart ==
    [][\A id \in SearchIds :
          Completes(id)
          => /\ chart'.state = "live"
             /\ stockInfo'.symbol = chart'.symbol
             /\ stockInfo'.source = chart'.source]_vars

\* C28: the chart variable never refers to a destroyed Chart: it is null or
\* a live instance after every createChart call
C28_ChartNeverDestroyed == chart.state # "destroyed"

\* C29: compareStocks updates the two sides atomically: the step in which a
\* comparison ends either replaces the title, the info panel and the chart of
\* both sides by those of the new comparison, or changes neither side
C29_ComparisonAtomic ==
    [][\A c \in CompareIds :
          CompareRenders(c) \/ CompareFails(c)
          => \/ panels' = panels
             \/ \A side \in Sides :
                   /\ panels'[side].title = compares[c].symbol[side]
                   /\ panels'[side].info.symbol = compares[c].symbol[side]
                   /\ panels'[side].chart.state = "live"
                   /\ panels'[side].chart.symbol = compares[c].symbol[side]]_vars

----------------------------------------------------------------------------
(* The three documented cache variants side by side: ApiCache and          *)
(* CacheManager (docs/performance.md) and the Map read by getCachedData    *)
(* (docs/development.md), each given the same sets and gets                *)

Variants == {"ApiCache", "CacheManager", "getCachedData"}

NoGets == [v \in Variants |-> "none"]

\* no fetchWithRetry call made yet
NoRetry == [pc |-> "idle", attempt |-> 0, calls |-> 0, errors |-> <<>>,
            waits |-> <<>>, result |-> "none", thrown |-> "none"]

\* no setTimeout made yet: 'let timeout' is undefined
NoTimeout == [state |-> "undefined", due |-> 0, args |-> "none"]

\* debounce not called yet
NoDebounce == [variant |-> "none", immediate |-> FALSE, timeout |-> NoTimeout]

UtilIdle ==
    /\ variants = [v \in Variants |-> [k \in Keys |-> NoEntry]]
    /\ variantGets = NoGets
    /\ retry = NoRetry
    /\ rateLimiter = <<>> /\ issued = <<>> /\ lastRequest = "none"
    /\ debounced = NoDebounce /\ calls = <<>> /\ invocations = <<>>

\* getCachedData(key): item && Date.now() - item.timestamp < 300000
getCachedData(item, t) ==
    IF item.present /\ t - item.timestamp < TTL THEN item.data ELSE "null"

\* set(key, data) on each variant at the same instant; getCachedData's Map
\* is filled with the {data, timestamp} items getCachedData reads
VariantsSet(key, data) ==
    /\ variants' = [v \in Variants |->
                       [variants[v] EXCEPT ![key] =
                           IF v = "CacheManager"
                           THEN [present |-> TRUE, data |-> data, timestamp |-> 0,
                                 expiry |-> now + TTL]
                           ELSE [present |-> TRUE, data |-> data, timestamp |-> now,
                                 expiry |-> 0]]]
    /\ cleanupTimeout' = IF cleanupTimeout # NoTimer THEN cleanupTimeout
                         ELSE now + CleanupInterval
    /\ variantGets' = NoGets
    /\ UNCHANGED <<cacheKind, now, ticks, cache, lastSet, lastGet, retry, rVars,
                   yVars, aVars, mVars, sVars, tVars, dVars>>

\* get(key) on each variant at the same instant: ApiCache.get and
\* CacheManager.get delete the item they find expired, getCachedData only
\* reads
VariantsGet(key) ==
    LET Expired(v) ==
            /\ variants[v][key].present
            /\ \/ v = "ApiCache" /\ ApiCacheExpired(variants[v][key], now)
               \/ v = "CacheManager" /\ CacheManagerExpired(variants[v][key], now)
    IN /\ variantGets' = [v \in Variants |->
                             IF v = "getCachedData"
                             THEN getCachedData(variants[v][key], now)
                             ELSE IF ~variants[v][key].present \/ Expired(v)
                             THEN "null"
                             ELSE variants[v][key].data]
       /\ variants' = [v \in Variants |->
                          IF Expired(v) THEN [variants[v] EXCEPT ![key] = NoEntry]
                          ELSE variants[v]]
       /\ UNCHANGED <<cVars, retry, rVars, yVars, aVars, mVars, sVars, tVars, dVars>>

\* the setTimeout callback of CacheManager.scheduleCleanup
VariantsCleanup ==
    /\ cleanupTimeout # NoTimer /\ now >= cleanupTimeout
    /\ variants' = [variants EXCEPT !["CacheManager"] =
                       [k \in Keys |->
                           IF @[k].present /\ CacheManagerExpired(@[k], now)
                           THEN NoEntry ELSE @[k]]]
    /\ cleanupTimeout' = NoTimer
    /\ variantGets' = NoGets
    /\ UNCHANGED <<cacheKind, now, ticks, cache, lastSet, lastGet, retry, rVars,
                   yVars, aVars, mVars, sVars, tVars, dVars>>

\* time passes for the three variants
VariantsTick ==
    /\ ticks < MaxTicks
    /\ \E step \in {1, TTL - 1} : now' = now + step
    /\ ticks' = ticks + 1
    /\ variantGets' = NoGets
    /\ UNCHANGED <<cacheKind, cache, cleanupTimeout, lastSet, lastGet, variants, retry,
                   rVars, yVars, aVars, mVars, sVars, tVars, dVars>>

NextVariants ==
    \/ \E k \in Keys, d \in Data : VariantsSet(k, d)
    \/ \E k \in Keys : VariantsGet(k)
    \/ VariantsCleanup
    \/ VariantsTick

\* C30: the documented cache variants agree on expiry: for a 5-minute TTL and
\* every age of the entry, a get made at the same instant on ApiCache,
\* CacheManager and getCachedData is a hit in all three or a miss in all
\* three, also when the entry is exactly TTL old.
C30_VariantsAgree ==
    variantGets # NoGets =>
        \A v, w \in Variants : (variantGets[v] = "null") <=> (variantGets[w] = "null")

----------------------------------------------------------------------------
(* APIErrorHandler.fetchWithRetry (the error handling guide): one call,    *)
(* from its first attempt to its return or throw                           *)

\* retryConfig
MaxRetries == 3
BaseDelay == 1000
MaxDelay == 10000

\* what fetchFunction can return, and the messages of the errors it can throw
FetchResults == {"d1", "d2"}
FetchErrors == {"HTTP 500: Internal Server Error", "Failed to fetch",
                "API rate limit exceeded", "Invalid API key",
                "symbol not found: XYZ"}

\* isNonRetryableError: whether the lower-cased message includes one of the
\* lower-cased non-retryable messages
isNonRetryableError(message) == message \in {"Invalid API key", "symbol not found: XYZ"}

RECURSIVE Pow2(_)
Pow2(n) == IF n <= 0 THEN 1 ELSE 2 * Pow2(n - 1)

\* Math.min(baseDelay * Math.pow(2, attempt - 1), maxDelay)
RetryDelay(attempt) == Min(BaseDelay * Pow2(attempt - 1), MaxDelay)

\* the catch block for a retryable error: lastError = error, the delay is
\* computed and this.sleep(delay) is awaited, on every attempt
Backoff(call, message) ==
    [call EXCEPT !.pc = "sleeping", !.errors = Append(@, message),
                 !.waits = Append(@, RetryDelay(call.attempt))]

\* fetchWithRetry is called: the loop starts with attempt 1 and calls
\* fetchFunction
FetchWithRetry ==
    /\ retry.pc = "idle"
    /\ retry' = [retry EXCEPT !.pc = "calling", !.attempt = 1, !.calls = 1]
    /\ UNCHANGED <<variants, variantGets, rVars, yVars, aVars, mVars, cVars, sVars, tVars, dVars>>

\* the awaited fetchFunction resolves: return await fetchFunction(...args)
FetchReturns(data) ==
    /\ retry.pc = "calling"
    /\ retry' = [retry EXCEPT !.pc = "returned", !.result = data]
    /\ UNCHANGED <<variants, variantGets, rVars, yVars, aVars, mVars, cVars, sVars, tVars, dVars>>

\* the awaited fetchFunction rejects: the catch block
FetchThrows(message) ==
    /\ retry.pc = "calling"
    /\ retry' = IF isNonRetryableError(message)
                THEN [retry EXCEPT !.pc = "threw", !.errors = Append(@, message),
                                   !.thrown = message]
                ELSE Backoff(retry, message)
    /\ UNCHANGED <<variants, variantGets, rVars, yVars, aVars, mVars, cVars, sVars, tVars, dVars>>

\* the timer of this.sleep fires: attempt++, then the next call of
\* fetchFunction, or 'throw lastError' after the loop
SleepEnds ==
    /\ retry.pc = "sleeping"
    /\ retry' = IF retry.attempt + 1 <= MaxRetries
                THEN [retry EXCEPT !.pc = "calling", !.attempt = @ + 1,
                                   !.calls = @ + 1]
                ELSE [retry EXCEPT !.pc = "threw", !.attempt = @ + 1,
                                   !.thrown = Last(retry.errors)]
    /\ UNCHANGED <<variants, variantGets, rVars, yVars, aVars, mVars, cVars, sVars, tVars, dVars>>

NextRetry ==
    \/ FetchWithRetry
    \/ \E data \in FetchResults : FetchReturns(data)
    \/ \E message \in FetchErrors : FetchThrows(message)
    \/ SleepEnds

\* C21: fetchWithRetry calls the fetch function at most maxRetries (3) times;
\* it returns the first successful result without a further call, rethrows a
\* non-retryable error at once, without another attempt or delay, and
\* otherwise throws the last error after the maxRetries-th failure; it waits
\* min(baseDelay * 2^(attempt-1), maxDelay) after a failed attempt, and only
\* between two attempts.
C21_RetryBounded ==
    /\ retry.calls <= MaxRetries
    /\ \A k \in 1..Len(retry.waits) : retry.waits[k] = RetryDelay(k)
    \* every wait is followed by an attempt, or is still running
    /\ Len(retry.waits) = (IF retry.pc = "sleeping" THEN retry.calls
                           ELSE retry.calls - 1)
       \/ retry.pc = "idle"
    /\ retry.pc = "sleeping" => retry.calls < MaxRetries
    /\ retry.pc = "returned" =>
          /\ retry.result \in FetchResults
          /\ Len(retry.errors) = retry.calls - 1
    /\ retry.pc = "threw" =>
          /\ Len(retry.errors) = retry.calls
          /\ retry.thrown = Last(retry.errors)
          /\ isNonRetryableError(retry.thrown) \/ retry.calls = MaxRetries
          /\ \A k \in 1..(retry.calls - 1) : ~isNonRetryableError(retry.errors[k])

----------------------------------------------------------------------------
(* RateLimitManager and fetchWithRateLimit (the error handling guide):     *)
(* every request goes through fetchWithRateLimit                           *)

\* new RateLimitManager(): maxRequests = 5, timeWindow = 60000
MaxRequests == 5
TimeWindow == 60000

\* canMakeRequest with 'this.requests.length <= this.maxRequests'
canMakeRequest_allowsOneMore(requests, t) ==
    LET kept == SelectSeq(requests, LAMBDA time : t - time < TimeWindow)
    IN [requests |-> kept, ok |-> Len(kept) <= MaxRequests]

\* canMakeRequest at Date.now() = t: this.requests after the filter, and the
\* value returned
canMakeRequest(requests, t) ==
    LET kept == SelectSeq(requests, LAMBDA time : t - time < TimeWindow)
    IN [requests |-> kept, ok |-> Len(kept) < MaxRequests]

\* fetchWithRateLimit(fetchFunction, ...args) up to its await: the check, then
\* the APIError, or recordRequest and the call of fetchFunction; the clock may
\* advance between the Date.now() of canMakeRequest and that of recordRequest
FetchWithRateLimit ==
    /\ LET check == canMakeRequest(rateLimiter, now)
       IN IF ~check.ok
          THEN /\ rateLimiter' = check.requests
               /\ lastRequest' = "RATE_LIMITED"
               /\ UNCHANGED <<issued, now, ticks>>
          ELSE /\ \E later \in {0, 1} :
                    /\ later = 1 => ticks < MaxTicks
                    /\ now' = now + later
                    /\ ticks' = ticks + later
                    /\ rateLimiter' = Append(check.requests, now + later)
                    /\ issued' = Append(issued, now + later)
               /\ lastRequest' = "issued"
    /\ UNCHANGED <<cacheKind, cache, cleanupTimeout, lastSet, lastGet,
                   variants, variantGets, retry, yVars, aVars, mVars, sVars, tVars, dVars>>

\* time passes: by a millisecond, or by a millisecond less than the window
RateTick ==
    /\ ticks < MaxTicks
    /\ \E step \in {1, TimeWindow - 1} : now' = now + step
    /\ ticks' = ticks + 1
    /\ lastRequest' = "none"
    /\ UNCHANGED <<cacheKind, cache, cleanupTimeout, lastSet, lastGet,
                   variants, variantGets, retry, rateLimiter, issued,
                   yVars, aVars, mVars, sVars, tVars, dVars>>

NextRate == FetchWithRateLimit \/ RateTick

\* how many requests were issued in the window of TimeWindow that ends at t
IssuedInWindow(t) ==
    Cardinality({k \in 1..Len(issued) : t - issued[k] < TimeWindow /\ issued[k] <= t})

\* C22: when every request goes through fetchWithRateLimit, no window of
\* timeWindow (60 s) holds more than maxRequests (5) issued requests, each of
\* them recorded; a request that arrives while the window is full is rejected
\* with RATE_LIMITED and is neither recorded nor issued, and no other request
\* is rejected.
C22_RateLimited ==
    /\ [](/\ \A k \in 1..Len(issued) :
                k + MaxRequests <= Len(issued) =>
                    issued[k + MaxRequests] - issued[k] >= TimeWindow
          /\ \A k \in 1..Len(issued) : IssuedInWindow(issued[k]) <= MaxRequests
          /\ IssuedInWindow(now) <= MaxRequests
          /\ \A k \in 1..Len(rateLimiter) :
                \E j \in 1..Len(issued) : issued[j] = rateLimiter[k])
    /\ [][FetchWithRateLimit =>
            IF IssuedInWindow(now) >= MaxRequests
            THEN /\ lastRequest' = "RATE_LIMITED"
                 /\ issued' = issued
                 /\ rateLimiter' = rateLimiter
            ELSE /\ lastRequest' = "issued"
                 /\ Len(issued') = Len(issued) + 1
                 /\ Len(rateLimiter') = IssuedInWindow(now) + 1
                 /\ Last(rateLimiter') = Last(issued')]_vars

\* a request was rejected after the window had moved on: more than
\* maxRequests requests were issued before it
C22_Witness ==
    /\ lastRequest = "RATE_LIMITED"
    /\ Len(issued) > MaxRequests

----------------------------------------------------------------------------
(* debounce(func, wait) of docs/architecture.md and debounce(func, wait,   *)
(* immediate = false) of docs/performance.md.  A timer task runs at the    *)
(* instant it is due, before a call that arrives at that instant.          *)

MaxCalls == 4

\* debounce(searchStock, 300)
DebounceWait == 300

DebounceArgs == {"AAPL", "MSFT"}

\* the variants of debounce, with the values of 'immediate' each one takes
Debounces ==
    {[variant |-> "architecture", immediate |-> FALSE, timeout |-> NoTimeout]}
    \cup {[variant |-> "performance", immediate |-> i, timeout |-> NoTimeout] :
            i \in BOOLEAN}

\* executedFunction that leaves a pending timer and its closure in place
Rescheduled_keepsPending(timeout, args, t) ==
    IF timeout.state = "pending" THEN timeout
    ELSE [state |-> "pending", due |-> t + DebounceWait, args |-> args]

\* clearTimeout(timeout); timeout = setTimeout(later, wait), where later
\* closes over the args of this call
Rescheduled(timeout, args, t) ==
    [state |-> "pending", due |-> t + DebounceWait, args |-> args]

Invoked(history, t, args) == Append(history, [at |-> t, args |-> args])

\* a call of the debounced function (executedFunction)
DebouncedCall(args) ==
    /\ Len(calls) < MaxCalls
    /\ debounced.timeout.state = "pending" => now < debounced.timeout.due
    /\ LET callNow == /\ debounced.immediate
                      /\ debounced.timeout.state \in {"undefined", "null"}
       IN /\ debounced' = [debounced EXCEPT
                              !.timeout = Rescheduled(@, args, now)]
          /\ invocations' = IF callNow THEN Invoked(invocations, now, args)
                            ELSE invocations
    /\ calls' = Append(calls, [at |-> now, args |-> args])
    /\ UNCHANGED <<cVars, variants, variantGets, retry, rVars,
                   yVars, aVars, mVars, sVars, tVars>>

\* the timer task: later()
TimerFires ==
    /\ debounced.timeout.state = "pending"
    /\ now = debounced.timeout.due
    /\ IF debounced.variant = "architecture"
       THEN \* clearTimeout(timeout); func(...args)
            /\ debounced' = [debounced EXCEPT !.timeout.state = "fired"]
            /\ invocations' = Invoked(invocations, now, debounced.timeout.args)
       ELSE \* timeout = null; if (!immediate) func(...args)
            /\ debounced' = [debounced EXCEPT !.timeout.state = "null"]
            /\ invocations' = IF ~debounced.immediate
                              THEN Invoked(invocations, now, debounced.timeout.args)
                              ELSE invocations
    /\ UNCHANGED <<cVars, calls, variants, variantGets, retry, rVars,
                   yVars, aVars, mVars, sVars, tVars>>

\* time passes, up to the instant at which the pending timer is due: by a
\* millisecond, or by a millisecond less than the wait
DebounceTick ==
    /\ ticks < MaxTicks
    /\ \E step \in {1, DebounceWait - 1} :
          /\ debounced.timeout.state = "pending" =>
                now + step <= debounced.timeout.due
          /\ now' = now + step
    /\ ticks' = ticks + 1
    /\ UNCHANGED <<cacheKind, cache, cleanupTimeout, lastSet, lastGet, dVars,
                   variants, variantGets, retry, rVars,
                   yVars, aVars, mVars, sVars, tVars>>

NextDebounce ==
    \/ \E args \in DebounceArgs : DebouncedCall(args)
    \/ TimerFires
    \/ DebounceTick

\* call k is the last of its burst: no call follows less than the wait later
BurstLast(k) ==
    k = Len(calls) \/ calls[k + 1].at - calls[k].at >= DebounceWait

\* the invocations the bursts ended by time t call for, in order: one per
\* burst, the wait after its last call, with the arguments of that call
RECURSIVE Trailing(_, _)
Trailing(k, t) ==
    IF k = 0 THEN <<>>
    ELSE IF BurstLast(k) /\ calls[k].at + DebounceWait <= t
         THEN Append(Trailing(k - 1, t),
                     [at |-> calls[k].at + DebounceWait, args |-> calls[k].args])
         ELSE Trailing(k - 1, t)

\* the invocations are those of the bursts that have ended, the one that is
\* due at this instant made or about to be made
OnePerBurst ==
    \/ invocations = Trailing(Len(calls), now)
    \/ invocations = Trailing(Len(calls), now - 1)

\* C23 as stated: for every function debounce returns, each burst of calls
\* less than the wait apart results in exactly one invocation of the
\* underlying function, made the wait after the last call of the burst with
\* that call's arguments, and none while the calls keep arriving.
C23_AsStated == OnePerBurst

\* C23: for a function debounced with wait w and without the immediate flag
\* (debounce(func, w) of either variant), each burst of calls less than w
\* apart results in exactly one invocation of the underlying function, made w
\* after the last call of the burst with that call's arguments; no invocation
\* happens while calls keep arriving less than w apart.
C23_TrailingDebounce == ~debounced.immediate => OnePerBurst

\* a burst of two calls with different arguments has ended and was followed
\* by a second burst
C23_Witness ==
    /\ ~debounced.immediate
    /\ Len(calls) >= 3 /\ Len(invocations) >= 1
    /\ calls[1].args # calls[2].args
    /\ calls[1].at < calls[2].at
    /\ calls[2].at - calls[1].at < DebounceWait
    /\ calls[3].at - calls[2].at >= DebounceWait


----------------------------------------------------------------------------
(* Specifications: one per part of the program, the other parts idle       *)

InitYahoo ==
    /\ yIn \in YahooResults /\ yOut = NoResult /\ yChart = NoChartData
    /\ AlphaIdle /\ MockIdle /\ CacheIdle /\ AppIdle /\ ThemeIdle /\ UtilIdle

SpecYahoo == InitYahoo /\ [][NextYahoo]_vars

InitAlpha ==
    /\ aIn \in AlphaSeries /\ aRange \in 1..MaxRange
    /\ aOut = NoResult /\ aChart = NoChartResult
    /\ YahooIdle /\ MockIdle /\ CacheIdle /\ AppIdle /\ ThemeIdle /\ UtilIdle

SpecAlpha == InitAlpha /\ [][NextAlpha]_vars

InitMock ==
    /\ mRange \in MockRanges /\ mPrice \in QuotePrices /\ mRandom \in RandomStreams
    /\ mChart = NoChartResult /\ mData = NoResult /\ mCandle = NoCandle
    /\ YahooIdle /\ AlphaIdle /\ CacheIdle /\ AppIdle /\ ThemeIdle /\ UtilIdle

SpecMock == InitMock /\ [][NextMock]_vars

InitCache ==
    /\ cacheKind \in {"ApiCache", "CacheManager"} /\ now = 0 /\ ticks = 0
    /\ cache = [k \in Keys |-> NoEntry] /\ cleanupTimeout = NoTimer
    /\ lastSet = [k \in Keys |-> NoSet] /\ lastGet = NoGet
    /\ YahooIdle /\ AlphaIdle /\ MockIdle /\ AppIdle /\ ThemeIdle /\ UtilIdle

SpecCache == InitCache /\ [][NextCache]_vars

InitChain ==
    /\ isComparisonMode \in BOOLEAN
    /\ searches = [id \in SearchIds |-> NoSearch]
    /\ chart = NoChart /\ stockInfo = NoInfo
    /\ loading = FALSE /\ searchDisabled = FALSE /\ error = "none"
    /\ compares = [c \in CompareIds |-> NoCompare]
    /\ panels = [side \in Sides |-> NoPanel]
    /\ compareDisabled = FALSE
    /\ instances = [canvas \in Canvases |-> 0]
    /\ chartJsLoaded = TRUE
    /\ lastAlpha = NoAlpha
    /\ lastDone = NoDone
    /\ YahooIdle /\ AlphaIdle /\ MockIdle /\ CacheIdle /\ ThemeIdle /\ UtilIdle

SpecChain == InitChain /\ [][NextChain]_vars

\* single-stock mode alone: the page as loaded, searchStock calls only
InitSearch == AppIdle /\ YahooIdle /\ AlphaIdle /\ MockIdle /\ CacheIdle /\ ThemeIdle /\ UtilIdle

SpecSearch == InitSearch /\ [][NextSearch]_vars

\* the theme of the pages alone: a browser profile in which nothing is stored
\* yet, with each kind of access to localStorage
InitTheme ==
    /\ storage = NoStoredTheme /\ storageAccess \in StorageAccesses
    /\ themeManager = [p \in Pages |-> NoThemeManager]
    /\ dataTheme = [p \in Pages |-> NoStoredTheme]
    /\ lastApplied = NoStoredTheme
    /\ YahooIdle /\ AlphaIdle /\ MockIdle /\ CacheIdle /\ AppIdle /\ UtilIdle

SpecTheme == InitTheme /\ [][NextTheme]_vars

\* both modes with the mode switch, from the page as loaded
InitLifecycle == AppIdle /\ YahooIdle /\ AlphaIdle /\ MockIdle /\ CacheIdle /\ ThemeIdle /\ UtilIdle

SpecLifecycle == InitLifecycle /\ [][NextLifecycle]_vars

\* comparison mode alone, on a page where Chart.js loaded and on one where it
\* did not ('typeof Chart === "undefined"' at DOMContentLoaded)
InitCompare ==
    /\ isComparisonMode = TRUE
    /\ searches = [id \in SearchIds |-> NoSearch]
    /\ chart = NoChart /\ stockInfo = NoInfo
    /\ loading = FALSE /\ searchDisabled = FALSE /\ error = "none"
    /\ compares = [c \in CompareIds |-> NoCompare]
    /\ panels = [side \in Sides |-> NoPanel]
    /\ compareDisabled = FALSE
    /\ instances = [canvas \in Canvases |-> 0]
    /\ chartJsLoaded \in BOOLEAN
    /\ lastAlpha = NoAlpha
    /\ lastDone = NoDone
    /\ YahooIdle /\ AlphaIdle /\ MockIdle /\ CacheIdle /\ ThemeIdle /\ UtilIdle

SpecCompare == InitCompare /\ [][NextCompare]_vars

\* the three cache variants, constructed at the same instant and empty
InitVariants ==
    /\ CacheIdle /\ UtilIdle
    /\ YahooIdle /\ AlphaIdle /\ MockIdle /\ AppIdle /\ ThemeIdle

SpecVariants == InitVariants /\ [][NextVariants]_vars

\* one fetchWithRetry call on a freshly constructed APIErrorHandler
InitRetry ==
    /\ UtilIdle
    /\ YahooIdle /\ AlphaIdle /\ MockIdle /\ CacheIdle /\ AppIdle /\ ThemeIdle

SpecRetry == InitRetry /\ [][NextRetry]_vars

\* a freshly constructed rateLimiter
InitRate ==
    /\ UtilIdle
    /\ YahooIdle /\ AlphaIdle /\ MockIdle /\ CacheIdle /\ AppIdle /\ ThemeIdle

SpecRate == InitRate /\ [][NextRate]_vars

\* a function just returned by debounce, of either variant
InitDebounce ==
    /\ variants = [v \in Variants |-> [k \in Keys |-> NoEntry]]
    /\ variantGets = NoGets
    /\ retry = NoRetry
    /\ rateLimiter = <<>> /\ issued = <<>> /\ lastRequest = "none"
    /\ debounced \in Debounces /\ calls = <<>> /\ invocations = <<>>
    /\ YahooIdle /\ AlphaIdle /\ MockIdle /\ CacheIdle /\ AppIdle /\ ThemeIdle

SpecDebounce == InitDebounce /\ [][NextDebounce]_vars

\* single-stock mode in which every fetch a call awaits eventually settles
SpecSearchFair ==
    InitSearch /\ [][NextSearch]_vars /\ \A id \in SearchIds : WF_vars(Settle(id))

====
